---------------------------- MODULE Spec2Model ----------------------------
(***************************************************************************)
(* A model of the prospect-resolution pipeline of ProspectSearchAgent:     *)
(* entity extraction (serpapi_client.py), attribute estimation             *)
(* (smart_enricher.py), contact resolution (hunter_client.py),             *)
(* deduplication (deduplicator.py) and confidence scoring (scoring.py).    *)
(*                                                                         *)
(* Python strings are TLA+ strings; TLC evaluates Len, SubSeq and \o on    *)
(* them, so the text operations of the source (lower, strip, split,        *)
(* substring tests, regular expressions) are computed character by         *)
(* character.  Floats that the code only scales and compares are kept as   *)
(* integers: confidences and scores in hundredths, weighted sums in        *)
(* thousandths.                                                            *)
(***************************************************************************)
EXTENDS Integers, Sequences, FiniteSets, TLC

VARIABLES
    pc,                 \* position of the running function
    companies,          \* the list of Company dicts the current stage works on
    idx,                \* number of list items the current loop has consumed
    unique_companies,   \* deduplicate_companies: the insertion-ordered dict
    key,                \* deduplicate_companies: local `key`
    similar_key,        \* deduplicate_companies: local `similar_key`
    existing,           \* deduplicate_companies: local `existing`
    company,            \* the loop variable `company` of the current stage
    run,                \* which application of the Deduplicator is running
    first_output,       \* the list the first application returned
    icp_config,         \* the ICP dict given to the scorer
    industry_score,     \* calculate_confidence: local, in hundredths
    funding_score,      \* calculate_confidence: local, in hundredths
    hiring_score,       \* calculate_confidence: local, in hundredths
    employee_score,     \* calculate_confidence: local, in hundredths
    ranked,             \* the list calculate_confidence returned
    api_key,            \* HunterClient.api_key is set
    status,             \* find_emails: outcome of the HTTP request
    data,               \* find_emails: the JSON payload of a 200 response
    contacts,           \* the list find_emails returned
    original_data,      \* enrich_companies_batch: local, company.copy()
    enriched_data,      \* enrich_companies_batch: local, the estimator's dict
    company_data,       \* _search_working_method: local, the list one query returned
    calls,              \* the requests sent and pauses taken so far, in order
    in_flight,          \* number of directory lookups sent and not yet answered
    prospects,          \* what search_prospects returned
    serpapi_filters     \* the filters search_prospects gave to search_companies

dedupVars == <<unique_companies, key, similar_key, existing, run, first_output>>

scoreVars == <<icp_config, industry_score, funding_score, hiring_score,
               employee_score, ranked>>

hunterVars == <<api_key, status, data, contacts>>

enrichVars == <<original_data, enriched_data>>

callVars == <<company_data, calls, in_flight, prospects, serpapi_filters>>

vars == <<pc, companies, idx, company, dedupVars, scoreVars, hunterVars, enrichVars,
          callVars>>

\* what the actions of one component leave alone
notDedup == <<scoreVars, hunterVars, enrichVars, callVars>>

notScore == <<dedupVars, hunterVars, enrichVars, callVars>>

notHunter == <<dedupVars, scoreVars, enrichVars, callVars>>

notEnrich == <<dedupVars, scoreVars, hunterVars, callVars>>

---------------------------------------------------------------------------
(* Bounds of the model.                                                    *)

MaxCompanies == 3

\* a directory response is up to MaxVaried arbitrary entries before or after
\* up to MaxFill well-formed matching entries
MaxVaried == 2

MaxFill == 5

\* the longest list given to the Attribute Estimator alone
MaxBatch == 2

\* random.choice draws among the first MaxDraw items of its list
MaxDraw == 2

\* the largest employee count and the largest ICP minimum tried
MaxCount == 12

MaxMin == 10

---------------------------------------------------------------------------
(* Python built-ins on strings and lists.                                  *)

Max(a, b) == IF a >= b THEN a ELSE b

Min(a, b) == IF a <= b THEN a ELSE b

Ch(s, i) == SubSeq(s, i, i)

Rest(s, i) == SubSeq(s, i, Len(s))

UpperChars == "ABCDEFGHIJKLMNOPQRSTUVWXYZ"

LowerChars == "abcdefghijklmnopqrstuvwxyz"

LowerCh(c) ==
    IF \E i \in 1..26 : Ch(UpperChars, i) = c
    THEN Ch(LowerChars, CHOOSE i \in 1..26 : Ch(UpperChars, i) = c)
    ELSE c

RECURSIVE lower(_)
lower(s) == IF Len(s) = 0 THEN "" ELSE LowerCh(Ch(s, 1)) \o lower(Rest(s, 2))

IsSpace(c) == c \in {" ", "\t", "\n", "\r"}

RECURSIVE lstrip(_)
lstrip(s) == IF Len(s) > 0 /\ IsSpace(Ch(s, 1)) THEN lstrip(Rest(s, 2)) ELSE s

RECURSIVE rstrip(_)
rstrip(s) ==
    IF Len(s) > 0 /\ IsSpace(Ch(s, Len(s)))
    THEN rstrip(SubSeq(s, 1, Len(s) - 1))
    ELSE s

strip(s) == rstrip(lstrip(s))

\* sub is found in s starting at position i
StartsAt(s, sub, i) ==
    /\ i >= 1
    /\ i + Len(sub) - 1 <= Len(s)
    /\ SubSeq(s, i, i + Len(sub) - 1) = sub

\* Python's `sub in s`
Contains(sub, s) == \E i \in 1..(Len(s) - Len(sub) + 1) : StartsAt(s, sub, i)

\* any(t in s for t in terms)
AnyIn(terms, s) == \E t \in terms : Contains(t, s)

Truthy(s) == Len(s) > 0

Range(f) == {f[i] : i \in DOMAIN f}

---------------------------------------------------------------------------
(* thefuzz.fuzz.ratio: the Indel similarity 2*LCS/(len(a)+len(b)) on a     *)
(* 0..100 scale, rounded by Python's round (half to even) and truncated.   *)

RECURSIVE LCS(_, _)
LCS(a, b) ==
    IF Len(a) = 0 \/ Len(b) = 0 THEN 0
    ELSE IF Ch(a, 1) = Ch(b, 1) THEN 1 + LCS(Rest(a, 2), Rest(b, 2))
    ELSE Max(LCS(Rest(a, 2), b), LCS(a, Rest(b, 2)))

\* round(num/den) to the nearest integer, ties to the even one
RoundHalfEven(num, den) ==
    LET q == num \div den
        r == num % den
    IN  IF 2 * r > den THEN q + 1
        ELSE IF 2 * r < den THEN q
        ELSE IF q % 2 = 0 THEN q ELSE q + 1

fuzz_ratio(a, b) ==
    IF Len(a) + Len(b) = 0 THEN 100
    ELSE RoundHalfEven(200 * LCS(a, b), Len(a) + Len(b))

---------------------------------------------------------------------------
(* Records.  A Company dict has every key the extractor writes; a key the  *)
(* code reads with .get() and that no stage has written yet holds the      *)
(* falsy value of its type ("" / 0 / <<>> / FALSE).  A contact's           *)
(* confidence is in thousandths.  `source` is kept as                      *)
(* a set: the merge rebuilds it with list(set(...)), whose order Python    *)
(* leaves open.  `signals` is a dict: a function from the keys present.    *)

Contact(name, title, email, confidence, verified) ==
    [name |-> name, title |-> title, email |-> email,
     confidence |-> confidence, hunter_verified |-> verified]

Signals(hiring, funding, amount, job_title, wfh) ==
    [recent_hiring |-> hiring, new_funding |-> funding, funding_amount |-> amount,
     job_title |-> job_title, job_posted |-> "Recently", work_from_home |-> wfh]

Company(name, domain, revenue, industry, employees, location, stage, cs, signals) ==
    [company_name |-> name, domain |-> domain, revenue |-> revenue,
     industry |-> industry, employee_count |-> employees, location |-> location,
     funding_stage |-> stage, contacts |-> cs, signals |-> signals,
     source |-> {"Google Search Jobs"}, confidence |-> 0,
     tech_stack |-> <<>>, smart_enriched |-> FALSE]

\* the value of a local that has not been assigned yet
NoCompany == Company("", "", 0, "", 0, "", "", <<>>, << >>)

\* dict.update(): the keys of b override those of a
DictUpdate(a, b) ==
    [k \in (DOMAIN a) \cup (DOMAIN b) |-> IF k \in DOMAIN b THEN b[k] ELSE a[k]]

---------------------------------------------------------------------------
(* Deduplicator (deduplicator.py).                                         *)

similarity_threshold == 85

_get_company_key(c) ==
    IF Truthy(c.domain) THEN strip(lower(c.domain)) ELSE strip(lower(c.company_name))

\* the dict as a sequence of <<key, value>> entries in insertion order
DictKeys(d) == {d[i].key : i \in DOMAIN d}

DictIndex(d, k) == CHOOSE i \in DOMAIN d : d[i].key = k

DictGet(d, k) == d[DictIndex(d, k)].val

\* an assignment that moves a known key to the end
DictSet_moving(d, k, v) ==
    Append(SelectSeq(d, LAMBDA e : e.key # k), [key |-> k, val |-> v])

\* d[k] = v: a new key goes to the end, a known key keeps its place
DictSet(d, k, v) ==
    IF k \in DictKeys(d)
    THEN [d EXCEPT ![DictIndex(d, k)] = [key |-> k, val |-> v]]
    ELSE Append(d, [key |-> k, val |-> v])

DictValues(d) == [i \in DOMAIN d |-> d[i].val]

\* a scan for which every kept record reaches the threshold
SimilarAt_any(c, d) == DOMAIN d

\* the positions of the kept records that reach the threshold
SimilarAt(c, d) ==
    {i \in DOMAIN d :
        fuzz_ratio(lower(c.company_name), lower(d[i].val.company_name))
            >= similarity_threshold}

\* a scan that keeps the last kept record reaching the threshold
_find_similar_company_last(c, d) ==
    IF SimilarAt(c, d) = {} THEN <<>>
    ELSE <<d[CHOOSE i \in SimilarAt(c, d) : \A j \in SimilarAt(c, d) : i >= j].key>>

\* returns <<key>> of the first kept record reaching the threshold, <<>> for None
_find_similar_company(c, d) ==
    IF SimilarAt(c, d) = {} THEN <<>>
    ELSE <<d[CHOOSE i \in SimilarAt(c, d) : \A j \in SimilarAt(c, d) : i <= j].key>>

\* `if similar_key:` is false for None and for the empty string
KeyTruthy(r) == r # <<>> /\ Truthy(r[1])

\* the email set built without the `if contact.get("email")` filter
existing_emails_unfiltered(c) == {c.contacts[i].email : i \in DOMAIN c.contacts}

existing_emails(c) ==
    {c.contacts[i].email : i \in {j \in DOMAIN c.contacts : Truthy(c.contacts[j].email)}}

\* a merge that appends every incoming contact
AppendNew_all(kept, incoming, emails) == kept \o incoming

RECURSIVE AppendNew(_, _, _)
AppendNew(kept, incoming, emails) ==
    IF incoming = <<>> THEN kept
    ELSE AppendNew(IF Head(incoming).email \notin emails
                   THEN Append(kept, Head(incoming)) ELSE kept,
                   Tail(incoming), emails)

\* a merge in which a truthy incoming value replaces the kept one
prefer_incoming(kept, incoming, falsy) ==
    IF incoming # falsy THEN incoming ELSE kept

\* lines 77-79: if not merged.get(field) and company2.get(field)
prefer_non_null(kept, incoming, falsy) ==
    IF kept = falsy /\ incoming # falsy THEN incoming ELSE kept

MergeFields(company1, company2) ==
    [company1 EXCEPT
        !.source = company1.source \cup company2.source,
        !.signals = DictUpdate(company1.signals, company2.signals),
        !.contacts = AppendNew(company1.contacts, company2.contacts,
                               existing_emails(company1)),
        !.revenue = prefer_non_null(company1.revenue, company2.revenue, 0),
        !.employee_count = prefer_non_null(company1.employee_count,
                                           company2.employee_count, 0),
        !.funding_stage = prefer_non_null(company1.funding_stage,
                                          company2.funding_stage, "")]

\* a merge that starts from a copy of the incoming record's name
_merge_companies_incoming_name(company1, company2) ==
    [MergeFields(company1, company2) EXCEPT !.company_name = company2.company_name]

_merge_companies(company1, company2) == MergeFields(company1, company2)

\* one iteration of the loop of deduplicate_companies (lines 14-30), by branch

DedupLoopAt ==
    /\ pc \in {"dedup_loop", "dedup_line23", "dedup_line26", "dedup_line30"}
    /\ idx < Len(companies)

\* lines 17-23: no exact key, a similar kept record: merge into it
DedupFuzzyMerge ==
    LET c  == companies[idx + 1]
        k  == _get_company_key(c)
        sk == _find_similar_company(c, unique_companies)
    IN  /\ DedupLoopAt
        /\ k \notin DictKeys(unique_companies)
        /\ KeyTruthy(sk)
        /\ company' = c
        /\ key' = k
        /\ similar_key' = sk
        /\ existing' = DictGet(unique_companies, sk[1])
        /\ unique_companies' = DictSet(unique_companies, sk[1],
                                       _merge_companies(existing', c))
        /\ idx' = idx + 1
        /\ pc' = "dedup_line23"
        /\ UNCHANGED <<companies, run, first_output, notDedup>>

\* lines 17-26: no exact key and no similar kept record: a new unique record
DedupInsert ==
    LET c  == companies[idx + 1]
        k  == _get_company_key(c)
        sk == _find_similar_company(c, unique_companies)
    IN  /\ DedupLoopAt
        /\ k \notin DictKeys(unique_companies)
        /\ ~KeyTruthy(sk)
        /\ company' = c
        /\ key' = k
        /\ similar_key' = sk
        /\ unique_companies' = DictSet(unique_companies, k, c)
        /\ idx' = idx + 1
        /\ pc' = "dedup_line26"
        /\ UNCHANGED <<companies, existing, run, first_output, notDedup>>

\* lines 27-30: the key is already kept: merge into that record
DedupExactMerge ==
    LET c == companies[idx + 1]
        k == _get_company_key(c)
    IN  /\ DedupLoopAt
        /\ k \in DictKeys(unique_companies)
        /\ company' = c
        /\ key' = k
        /\ existing' = DictGet(unique_companies, k)
        /\ unique_companies' = DictSet(unique_companies, k,
                                       _merge_companies(existing', c))
        /\ idx' = idx + 1
        /\ pc' = "dedup_line30"
        /\ UNCHANGED <<companies, similar_key, run, first_output, notDedup>>

\* line 32: return list(unique_companies.values())
DedupReturn ==
    /\ pc \in {"dedup_loop", "dedup_line23", "dedup_line26", "dedup_line30"}
    /\ idx = Len(companies)
    /\ companies' = DictValues(unique_companies)
    /\ pc' = "dedup_return"
    /\ UNCHANGED <<idx, company, dedupVars, notDedup>>

\* the Deduplicator applied to its own output
DedupAgain ==
    /\ pc = "dedup_return"
    /\ run = 1
    /\ first_output' = companies
    /\ run' = 2
    /\ unique_companies' = <<>>
    /\ idx' = 0
    /\ pc' = "dedup_loop"
    /\ UNCHANGED <<companies, company, key, similar_key, existing, notDedup>>

---------------------------------------------------------------------------
(* Confidence Scorer (scoring.py).  Sub-scores are in hundredths, the      *)
(* weights in tenths, the running `score` in thousandths.                  *)

\* dict.get(k, default)
DictGetOr(d, k, default) == IF k \in DOMAIN d THEN d[k] ELSE default

\* set(s.split()): the maximal runs of non-whitespace characters of s
Words(s) ==
    LET runs == {p \in (1..Len(s)) \X (1..Len(s)) :
                    /\ p[1] <= p[2]
                    /\ \A k \in p[1]..p[2] : ~IsSpace(Ch(s, k))
                    /\ (p[1] = 1 \/ IsSpace(Ch(s, p[1] - 1)))
                    /\ (p[2] = Len(s) \/ IsSpace(Ch(s, p[2] + 1)))}
    IN  {SubSeq(s, p[1], p[2]) : p \in runs}

_calculate_industry_match(c, icp) ==
    LET company_industry == lower(c.industry)
    IN  IF icp.industry = <<>> THEN 0
        ELSE IF ~Truthy(company_industry) THEN 0
        ELSE IF \E i \in DOMAIN icp.industry :
                    Contains(lower(icp.industry[i]), company_industry) THEN 100
        ELSE IF \E i \in DOMAIN icp.industry :
                    Words(lower(icp.industry[i])) \cap Words(company_industry) # {} THEN 50
        ELSE 0

\* funding_amount is in millions
_calculate_funding_score(c, icp) ==
    IF ~icp.signals.funding THEN 0
    ELSE IF DictGetOr(c.signals, "new_funding", FALSE)
         THEN IF DictGetOr(c.signals, "funding_amount", 0) > 50 THEN 100
              ELSE IF DictGetOr(c.signals, "funding_amount", 0) > 10 THEN 80
              ELSE 60
    ELSE IF Truthy(DictGetOr(c.signals, "funding_round", "")) THEN 30
    ELSE 0

_calculate_hiring_score(c, icp) ==
    IF ~icp.signals.hiring_data_roles THEN 0
    ELSE IF DictGetOr(c.signals, "recent_hiring", FALSE) THEN 100
    ELSE 0

\* employee_min * 0.8 and * 0.5 compared in tenths
_calculate_employee_score(c, icp) ==
    IF icp.employee_count_min = 0 \/ c.employee_count = 0 THEN 0
    ELSE IF c.employee_count >= icp.employee_count_min THEN 100
    ELSE IF 10 * c.employee_count >= 8 * icp.employee_count_min THEN 50
    ELSE IF 10 * c.employee_count >= 5 * icp.employee_count_min THEN 20
    ELSE 0

IndustryWeight == 4
FundingWeight == 3
HiringWeight == 2
EmployeeWeight == 1

\* a scorer whose employee term carries the hiring weight
WeightedScore_employee_weight(ind, fund, hire, emp) ==
    ind * IndustryWeight + fund * FundingWeight + hire * HiringWeight + emp * HiringWeight

\* lines 13-28: score = 0.0, then four `score += sub_score * weight`
WeightedScore(ind, fund, hire, emp) ==
    ind * IndustryWeight + fund * FundingWeight + hire * HiringWeight + emp * EmployeeWeight

\* round(score, 2): thousandths to hundredths
Round2(score) == RoundHalfEven(score, 10)

\* x put into a list that is sorted in decreasing order, before its equals
RECURSIVE InsertBeforeEquals(_, _)
InsertBeforeEquals(x, s) ==
    IF s = <<>> THEN <<x>>
    ELSE IF Head(s).confidence > x.confidence THEN <<Head(s)>> \o InsertBeforeEquals(x, Tail(s))
    ELSE <<x>> \o s

\* x put into a list that is sorted in decreasing order, after its equals
RECURSIVE InsertAfterEquals(_, _)
InsertAfterEquals(x, s) ==
    IF s = <<>> THEN <<x>>
    ELSE IF Head(s).confidence >= x.confidence THEN <<Head(s)>> \o InsertAfterEquals(x, Tail(s))
    ELSE <<x>> \o s

RECURSIVE SortWith(_, _, _)
SortWith(Ins(_, _), s, acc) ==
    IF s = <<>> THEN acc ELSE SortWith(Ins, Tail(s), Ins(Head(s), acc))

\* a sort that reverses the order of equal keys
sorted_reverse_unstable(s) == SortWith(InsertBeforeEquals, s, <<>>)

\* sorted(s, key=confidence, reverse=True): the insertion sort CPython runs
\* on short lists; reverse=True keeps equal keys in their original order
sorted_reverse(s) == SortWith(InsertAfterEquals, s, <<>>)

ScoreLoopAt ==
    /\ pc \in {"score_loop", "score_line30"}
    /\ idx < Len(companies)

\* lines 11-30: one iteration of the loop of calculate_confidence
ScoreCompany ==
    LET c == companies[idx + 1]
    IN  /\ ScoreLoopAt
        /\ industry_score' = _calculate_industry_match(c, icp_config)
        /\ funding_score' = _calculate_funding_score(c, icp_config)
        /\ hiring_score' = _calculate_hiring_score(c, icp_config)
        /\ employee_score' = _calculate_employee_score(c, icp_config)
        /\ company' = [c EXCEPT !.confidence =
                          Round2(WeightedScore(industry_score', funding_score',
                                               hiring_score', employee_score'))]
        /\ companies' = [companies EXCEPT ![idx + 1] = company']
        /\ idx' = idx + 1
        /\ pc' = "score_line30"
        /\ UNCHANGED <<icp_config, ranked, notScore>>

\* line 33: return sorted(companies, key=..., reverse=True)
ScoreReturn ==
    /\ pc \in {"score_loop", "score_line30"}
    /\ idx = Len(companies)
    /\ ranked' = sorted_reverse(companies)
    /\ pc' = "score_return"
    /\ UNCHANGED <<companies, idx, company, icp_config, industry_score,
                   funding_score, hiring_score, employee_score, notScore>>

\* agent.py line 70: companies.sort(key=..., reverse=True) on the returned list
AgentSort ==
    /\ pc = "score_return"
    /\ ranked' = sorted_reverse(ranked)
    /\ pc' = "agent_line70"
    /\ UNCHANGED <<companies, idx, company, icp_config, industry_score,
                   funding_score, hiring_score, employee_score, notScore>>

\* _calculate_employee_score called on its own (lines 95-113)
EmployeeScoreCall ==
    /\ pc = "employee_score"
    /\ employee_score' = _calculate_employee_score(company, icp_config)
    /\ pc' = "employee_score_return"
    /\ UNCHANGED <<companies, idx, company, icp_config, industry_score, funding_score,
                   hiring_score, ranked, notScore>>

NoIcp == [industry |-> <<>>, signals |-> [funding |-> FALSE, hiring_data_roles |-> FALSE],
          employee_count_min |-> 0]

\* the scorer's variables while another component runs
ScoreIdle ==
    /\ icp_config = NoIcp
    /\ industry_score = 0
    /\ funding_score = 0
    /\ hiring_score = 0
    /\ employee_score = 0
    /\ ranked = <<>>

DedupIdle ==
    /\ unique_companies = <<>>
    /\ key = ""
    /\ similar_key = <<>>
    /\ existing = NoCompany
    /\ run = 1
    /\ first_output = <<>>

---------------------------------------------------------------------------
(* Contact Resolver (hunter_client.py).  A field of a directory entry is   *)
(* present with a value, present with JSON null, or missing.               *)

Present(v) == [kind |-> "present", val |-> v]

Null(default) == [kind |-> "null", val |-> default]

Missing(default) == [kind |-> "missing", val |-> default]

Entry(first, last, position, value, confidence) ==
    [first_name |-> first, last_name |-> last, position |-> position,
     value |-> value, confidence |-> confidence]

job_titles == <<"CTO", "VP Engineering", "Chief Data Officer", "Head of Data">>

\* email_data.get(k, default): the default only for a missing key
GetField(f, default) == IF f.kind = "missing" THEN default ELSE f.val

\* line 86: any(title.lower() in position for title in target_titles)
Matches(position, target_titles) ==
    \E t \in DOMAIN target_titles : Contains(lower(target_titles[t]), position)

\* lines 80-97 raise on this entry: None.lower(), or None / 100.0
EntryRaises(e, target_titles) ==
    \/ e.position.kind = "null"
    \/ /\ target_titles = <<>> \/ Matches(lower(GetField(e.position, "")), target_titles)
       /\ e.confidence.kind = "null"

\* line 84: the entry is skipped by the title filter
EntrySkipped(e, target_titles) ==
    /\ target_titles # <<>>
    /\ ~Matches(lower(GetField(e.position, "")), target_titles)

\* line 95: confidence / 100.0, in thousandths
ScaleConfidence(raw) == (raw * 1000) \div 100

\* lines 89-97: the contact dict built from an entry
EntryContact(e) ==
    Contact(strip(e.first_name \o " " \o e.last_name), GetField(e.position, ""),
            e.value, ScaleConfidence(GetField(e.confidence, 0)), TRUE)

RECURSIVE ParseLoop(_, _, _)
ParseLoop(emails, target_titles, acc) ==
    IF emails = <<>> THEN [raised |-> FALSE, contacts |-> acc]
    ELSE IF EntryRaises(Head(emails), target_titles)
         THEN [raised |-> TRUE, contacts |-> <<>>]
    ELSE IF EntrySkipped(Head(emails), target_titles)
         THEN ParseLoop(Tail(emails), target_titles, acc)
    ELSE IF Truthy(Head(emails).value)
         THEN ParseLoop(Tail(emails), target_titles, Append(acc, EntryContact(Head(emails))))
    ELSE ParseLoop(Tail(emails), target_titles, acc)

\* a slice that lets every contact through
TopContacts_uncut(cs) == cs

\* line 102: contacts[:5]
TopContacts(cs) == SubSeq(cs, 1, Min(5, Len(cs)))

\* returns [raised, contacts]: the exception leaves the function
_parse_hunter_contacts(d, target_titles) ==
    LET r == ParseLoop(d.emails, target_titles, <<>>)
    IN  [raised |-> r.raised, contacts |-> TopContacts(r.contacts)]

NoData == [emails |-> <<>>]

\* lines 18-20: no API key, return []
FindEmailsNoKey ==
    /\ pc = "find_emails"
    /\ ~api_key
    /\ contacts' = <<>>
    /\ pc' = "find_emails_return"
    /\ UNCHANGED <<companies, idx, company, api_key, status, data, notHunter>>

\* lines 30-35 with status 200: the payload is parsed; an exception of the
\* parser is caught at line 39 and the function returns []
FindEmailsOk(Responses) ==
    \E d \in Responses :
        /\ pc = "find_emails"
        /\ api_key
        /\ status' = "200"
        /\ data' = d
        /\ contacts' = IF _parse_hunter_contacts(d, job_titles).raised THEN <<>>
                       ELSE _parse_hunter_contacts(d, job_titles).contacts
        /\ pc' = "find_emails_return"
        /\ UNCHANGED <<companies, idx, company, api_key, notHunter>>

\* lines 36-41: another HTTP status, or the request raises: return []
FindEmailsFailed ==
    \E st \in {"429", "exception"} :
        /\ pc = "find_emails"
        /\ api_key
        /\ status' = st
        /\ data' = NoData
        /\ contacts' = <<>>
        /\ pc' = "find_emails_return"
        /\ UNCHANGED <<companies, idx, company, api_key, notHunter>>

\* enrich_companies_with_contacts (lines 43-73), one await per action

endswith(s, suffix) ==
    /\ Len(s) >= Len(suffix)
    /\ SubSeq(s, Len(s) - Len(suffix) + 1, Len(s)) = suffix

\* line 52, negated: the domain is a non-empty string ending in ".com"
ValidDomain(domain) == domain # "" /\ endswith(domain, ".com")

\* a loop that goes on to the next company without pausing
no_sleep(log, seconds) == log

\* line 71: await asyncio.sleep(3)
sleep(log, seconds) == Append(log, [op |-> "sleep", arg |-> seconds])

\* an assignment made whatever find_emails returned
store_always(list, i, found) == [list EXCEPT ![i].contacts = found]

\* lines 63-65: if contacts: company["contacts"] = contacts
store(list, i, found) ==
    IF found # <<>> THEN [list EXCEPT ![i].contacts = found] ELSE list

ContactsLoopAt ==
    /\ pc = "contacts_loop"
    /\ idx < Len(companies)

\* lines 52-54: the gate fails, continue with the next company
ContactsSkip ==
    /\ ContactsLoopAt
    /\ ~ValidDomain(companies[idx + 1].domain)
    /\ idx' = idx + 1
    /\ UNCHANGED <<pc, companies, company, dedupVars, scoreVars, hunterVars,
                   enrichVars, callVars>>

\* lines 56-61: the gate passes and find_emails is called
ContactsLookup ==
    /\ ContactsLoopAt
    /\ ValidDomain(companies[idx + 1].domain)
    /\ company' = companies[idx + 1]
    /\ in_flight' = in_flight + 1
    /\ calls' = Append(calls, [op |-> "lookup", arg |-> companies[idx + 1].domain])
    /\ pc' = "find_emails"
    /\ UNCHANGED <<companies, idx, company_data, prospects, serpapi_filters, dedupVars, scoreVars,
                   hunterVars, enrichVars>>

\* lines 61-71: find_emails has returned; a non-empty list replaces the
\* company's contacts, then the loop pauses
ContactsStore ==
    /\ pc = "find_emails_return"
    /\ idx < Len(companies)
    /\ in_flight' = in_flight - 1
    /\ companies' = store(companies, idx + 1, contacts)
    /\ calls' = sleep(calls, 3)
    /\ idx' = idx + 1
    /\ pc' = "contacts_loop"
    /\ UNCHANGED <<company, company_data, prospects, serpapi_filters, dedupVars, scoreVars,
                   hunterVars, enrichVars>>

\* line 73: return companies
ContactsReturn ==
    /\ pc = "contacts_loop"
    /\ idx = Len(companies)
    /\ pc' = "contacts_return"
    /\ UNCHANGED <<companies, idx, company, dedupVars, scoreVars, hunterVars,
                   enrichVars, callVars>>

HunterIdle ==
    /\ api_key = FALSE
    /\ status = "none"
    /\ data = NoData
    /\ contacts = <<>>

---------------------------------------------------------------------------
(* Attribute Estimator (smart_enricher.py).  random.randint(a, b) is a     *)
(* choice among the ends of the range and the values around the funding    *)
(* buckets' limits that lie in it; revenue per employee is in thousands.   *)

BucketEdges == {50, 51, 100, 101, 500, 501, 1000, 1001}

randint(a, b) == {n \in BucketEdges \cup {a, b} : a <= n /\ n <= b}

\* lines 72-87
_estimate_employee_count(company_name, job_title) ==
    IF AnyIn({"corp", "corporation", "inc", "global", "international"}, company_name)
    THEN randint(1000, 50000)
    ELSE IF AnyIn({"labs", "tech", "io", "startup", "ventures"}, company_name)
    THEN randint(10, 200)
    ELSE IF AnyIn({"data scientist", "data engineer", "machine learning"}, job_title)
    THEN randint(50, 1000)
    ELSE randint(50, 2000)

\* lines 89-97: the range of revenue_per_employee, only its ends
revenue_per_employee(company_name) ==
    IF AnyIn({"tech", "software", "saas"}, company_name) THEN {200, 500}
    ELSE IF AnyIn({"consulting", "services"}, company_name) THEN {150, 300}
    ELSE {100, 250}

\* line 99
_estimate_revenue(employee_count, per_employee) == employee_count * per_employee

\* lines 101-127
_refine_industry(company_name, job_title, current_industry) ==
    IF AnyIn({"data scientist", "data engineer", "data analyst", "analytics"}, job_title)
    THEN "Data"
    ELSE IF AnyIn({"ai", "machine learning", "deep learning", "llm", "generative ai"}, job_title)
    THEN "Ai Ml"
    ELSE IF AnyIn({"software engineer", "developer", "full stack", "frontend", "backend"}, job_title)
    THEN "Software"
    ELSE IF AnyIn({"aws", "azure", "gcp", "cloud", "devops"}, job_title)
    THEN "Cloud"
    ELSE IF AnyIn({"fintech", "banking", "payments", "financial", "trading"}, job_title)
    THEN "Fintech"
    ELSE IF AnyIn({"health", "medical", "pharma", "biotech", "clinical"}, job_title)
    THEN "Healthcare"
    ELSE IF AnyIn({"bank", "finance", "capital", "payments"}, company_name) THEN "FinTech"
    ELSE IF AnyIn({"health", "medical", "care", "pharma"}, company_name) THEN "Healthcare"
    ELSE IF AnyIn({"media", "entertainment", "streaming"}, company_name)
    THEN "Media & Entertainment"
    ELSE IF AnyIn({"retail", "ecommerce", "shop", "store"}, company_name) THEN "E-commerce"
    ELSE IF Truthy(current_industry) THEN current_industry
    ELSE "Technology"

\* lines 129-140: the options random.choice / random.random pick from
_estimate_funding_stage(company_name, employee_count) ==
    IF employee_count > 1000 THEN {"Public", "Series E+"}
    ELSE IF employee_count > 500 THEN {"Series D", "Series E", "Private Equity"}
    ELSE IF employee_count > 100 THEN {"Series B", "Series C"}
    ELSE IF employee_count > 50 THEN {"Series A", "Series B"}
    ELSE {"Seed", "Series A", "Bootstrapped"}

\* lines 142-173: the keyword checks in their order
TechChecks ==
    << <<{"python", "py"}, "Python">>, <<{"java"}, "Java">>,
       <<{"javascript", "js", "node"}, "JavaScript">>, <<{"sql"}, "SQL">>,
       <<{"r"}, "R">>, <<{"aws", "amazon web services"}, "AWS">>,
       <<{"azure"}, "Azure">>, <<{"gcp", "google cloud"}, "GCP">>,
       <<{"snowflake"}, "Snowflake">>, <<{"databricks"}, "Databricks">>,
       <<{"spark"}, "Apache Spark">>, <<{"docker", "kubernetes", "k8s"}, "Containers">> >>

RECURSIVE TechLoop(_, _, _)
TechLoop(job_lower, i, acc) ==
    IF i > Len(TechChecks) THEN acc
    ELSE TechLoop(job_lower, i + 1,
                  IF AnyIn(TechChecks[i][1], job_lower)
                  THEN Append(acc, TechChecks[i][2]) ELSE acc)

\* line 175: tech_stack[:5]
_infer_tech_stack(job_title) ==
    LET all == TechLoop(lower(job_title), 1, <<>>)
    IN  SubSeq(all, 1, Min(5, Len(all)))

\* the dict with the one key k when cond holds, the empty dict otherwise
KeyIf(cond, k, v) == IF cond THEN (k :> v) ELSE << >>

\* lines 37-70 for one outcome of the three random draws
EstimateWith(c, company_name, job_title, emp, rpe, stage) ==
    KeyIf(c.employee_count = 0, "employee_count", emp)
    @@ KeyIf(c.revenue = 0, "revenue",
             _estimate_revenue(IF c.employee_count = 0 THEN emp ELSE c.employee_count, rpe))
    @@ KeyIf(~Truthy(c.industry) \/ c.industry = "Technology", "industry",
             _refine_industry(company_name, job_title, c.industry))
    @@ KeyIf(~Truthy(c.funding_stage), "funding_stage", stage)
    @@ KeyIf(Truthy(job_title), "tech_stack", _infer_tech_stack(job_title))
    @@ ("smart_enriched" :> TRUE)

\* lines 37-70: the dicts _estimate_from_job_data can return for a company;
\* line 61 reads the count from enriched_data, with 100 when it is not there
_estimate_from_job_data(c) ==
    LET company_name == lower(c.company_name)
        job_title    == lower(DictGetOr(c.signals, "job_title", ""))
    IN  UNION { { EstimateWith(c, company_name, job_title, emp, rpe, stage) :
                    stage \in _estimate_funding_stage(company_name,
                                  IF c.employee_count = 0 THEN emp ELSE 100) } :
                emp \in _estimate_employee_count(company_name, job_title),
                rpe \in revenue_per_employee(company_name) }

EnrichLoopAt ==
    /\ pc \in {"enrich_loop", "enrich_line29"}
    /\ idx < Len(companies)

\* lines 21-32: one iteration of the loop of enrich_companies_batch
EnrichCompany ==
    /\ EnrichLoopAt
    /\ \E e \in _estimate_from_job_data(companies[idx + 1]) :
        /\ original_data' = companies[idx + 1]
        /\ enriched_data' = e
        /\ company' = DictUpdate(companies[idx + 1], e)
        /\ companies' = [companies EXCEPT ![idx + 1] = company']
        /\ idx' = idx + 1
        /\ pc' = "enrich_line29"
        /\ UNCHANGED notEnrich

\* line 35: return companies
EnrichReturn ==
    /\ pc \in {"enrich_loop", "enrich_line29"}
    /\ idx = Len(companies)
    /\ pc' = "enrich_return"
    /\ UNCHANGED <<companies, idx, company, enrichVars, notEnrich>>

EnrichIdle ==
    /\ original_data = NoCompany
    /\ enriched_data = << >>

\* _search_working_method line 37: the default location
NoFilters == [location |-> "United States"]

\* no request sent, nothing returned
CallIdle ==
    /\ company_data = <<>>
    /\ calls = <<>>
    /\ in_flight = 0
    /\ prospects = <<>>
    /\ serpapi_filters = NoFilters

---------------------------------------------------------------------------
(* Entity Extractor (serpapi_client.py).  Each regular expression of the   *)
(* source is an operator that returns <<group 1>> for the match re.search  *)
(* finds (leftmost start, lazy or greedy as written) and <<>> for no       *)
(* match.  Titles, snippets and links hold no line breaks.                 *)

IsLetter(c) == \E i \in 1..26 : Ch(UpperChars, i) = c \/ Ch(LowerChars, i) = c

IsDigit(c) == c \in {"0", "1", "2", "3", "4", "5", "6", "7", "8", "9"}

UpperCh(c) ==
    IF \E i \in 1..26 : Ch(LowerChars, i) = c
    THEN Ch(UpperChars, CHOOSE i \in 1..26 : Ch(LowerChars, i) = c)
    ELSE c

\* str.title(): a letter that follows a non-letter is upper-cased, the others lower-cased
RECURSIVE TitleFrom(_, _)
TitleFrom(s, i) ==
    IF i > Len(s) THEN ""
    ELSE (IF i = 1 \/ ~IsLetter(Ch(s, i - 1)) THEN UpperCh(Ch(s, i)) ELSE LowerCh(Ch(s, i)))
         \o TitleFrom(s, i + 1)

title(s) == TitleFrom(s, 1)

\* str.replace(old, new): every non-overlapping occurrence, left to right
RECURSIVE replace(_, _, _)
replace(s, old, new) ==
    IF Len(s) = 0 THEN ""
    ELSE IF StartsAt(s, old, 1) THEN new \o replace(Rest(s, Len(old) + 1), old, new)
    ELSE Ch(s, 1) \o replace(Rest(s, 2), old, new)

\* len(s.split())
WordCount(s) ==
    Cardinality({i \in 1..Len(s) : ~IsSpace(Ch(s, i)) /\ (i = 1 \/ IsSpace(Ch(s, i - 1)))})

MinOf(S) == CHOOSE x \in S : \A y \in S : x <= y

MaxOf(S) == CHOOSE x \in S : \A y \in S : x >= y

\* r"(.+?)<lit>" or r"(.+?)<lit>.*?(?:t1|t2)", IGNORECASE: group 1 is the
\* shortest non-empty prefix followed by lit (and, given tail terms, by one of
\* them somewhere after lit); a match that exists starts at the first character
LazyBefore(s, lit, tails) ==
    LET low  == lower(s)
        ends == {j \in 1..Len(s) :
                    /\ StartsAt(low, lit, j + 1)
                    /\ (tails = {} \/ AnyIn(tails, Rest(low, j + 1 + Len(lit))))}
    IN  IF ends = {} THEN <<>> ELSE <<SubSeq(s, 1, MinOf(ends))>>

\* r"<lit>(.+?)", IGNORECASE: group 1 is the one character after the first
\* occurrence of lit that has a character after it
LazyAfter(s, lit) ==
    LET low    == lower(s)
        starts == {i \in 1..Len(s) : StartsAt(low, lit, i) /\ i + Len(lit) <= Len(s)}
    IN  IF starts = {} THEN <<>> ELSE <<Ch(s, MinOf(starts) + Len(lit))>>

generic_terms == {"jobs", "careers", "hiring", "search", "remote", "now hiring", "apply now"}

\* lines 176-183: the six patterns tried on the title, in order
TitlePattern(n, t) ==
    CASE n = 1 -> LazyBefore(t, " - ", {"job", "careers"})
      [] n = 2 -> LazyAfter(t, "careers at ")
      [] n = 3 -> LazyAfter(t, "jobs at ")
      [] n = 4 -> LazyBefore(t, " careers", {})
      [] n = 5 -> LazyBefore(t, " is hiring", {})
      [] n = 6 -> LazyBefore(t, " hiring", {})

\* lines 189-191: group(1).strip(), then re.sub(r'^at ', '', ...)
CleanMatch(g) ==
    LET c == strip(g)
    IN  IF StartsAt(lower(c), "at ", 1) THEN Rest(c, 4) ELSE c

\* lines 193-195 and 205-207: the name is not a generic one
AcceptName(c, banned) ==
    /\ Len(c) > 2
    /\ lower(c) \notin generic_terms
    /\ ~AnyIn(banned, lower(c))

RECURSIVE TryPatterns(_, _)
TryPatterns(t, n) ==
    IF n > 6 THEN <<>>
    ELSE IF TitlePattern(n, t) # <<>>
            /\ AcceptName(CleanMatch(TitlePattern(n, t)[1]), {"job", "career"})
         THEN <<CleanMatch(TitlePattern(n, t)[1])>>
    ELSE TryPatterns(t, n + 1)

\* r"https?://(?:www\.)?([^./]+)\.(?:com|org|io|net)" tried at position i
\* with the scheme `scheme` and with or without the optional "www."
DomainAt(link, i, scheme, www) ==
    LET from == i + Len(scheme) + Len(www)
        stop == {j \in from..Len(link) : Ch(link, j) \in {".", "/"}}
        last == IF stop = {} THEN Len(link) ELSE MinOf(stop) - 1
    IN  IF /\ StartsAt(link, scheme \o www, i)
           /\ last >= from
           /\ \E tld \in {".com", ".org", ".io", ".net"} : StartsAt(link, tld, last + 1)
        THEN <<SubSeq(link, from, last)>>
        ELSE <<>>

DomainMatchAt(link, i) ==
    LET tries == << DomainAt(link, i, "http://", "www."), DomainAt(link, i, "http://", ""),
                    DomainAt(link, i, "https://", "www."), DomainAt(link, i, "https://", "") >>
        hits  == {k \in 1..4 : tries[k] # <<>>}
    IN  IF hits = {} THEN <<>> ELSE tries[MinOf(hits)]

DomainMatch(link) ==
    LET hits == {i \in 1..Len(link) : DomainMatchAt(link, i) # <<>>}
    IN  IF hits = {} THEN <<>> ELSE DomainMatchAt(link, MinOf(hits))

\* lines 185-210: the first accepted pattern capture, else the name made
\* from the link's domain label, else ""
NameFromPatterns(t, link) ==
    IF TryPatterns(t, 1) # <<>> THEN TryPatterns(t, 1)[1]
    ELSE IF DomainMatch(link) # <<>>
            /\ AcceptName(title(replace(DomainMatch(link)[1], "-", " ")),
                          {"job", "career", "search"})
         THEN title(replace(DomainMatch(link)[1], "-", " "))
    ELSE ""

\* an extractor without the generic-title test of lines 171-173
_extract_company_name_no_generic_test(t, snippet, link) == NameFromPatterns(t, link)

\* lines 165-210
_extract_company_name(t, snippet, link) ==
    IF AnyIn(generic_terms, lower(t)) /\ WordCount(t) > 5 THEN ""
    ELSE NameFromPatterns(t, link)

\* re.sub(r".+? - ", '', s): every match is the text from the scan position
\* up to and including the next " - " that has a character before it
RECURSIVE SubLazyDash(_)
SubLazyDash(s) ==
    LET ends == {j \in 1..Len(s) : StartsAt(s, " - ", j + 1)}
    IN  IF ends = {} THEN s ELSE SubLazyDash(Rest(s, MinOf(ends) + 4))

\* re.sub(r"<lit>.+", '', s), IGNORECASE: cut from the first lit that has a
\* character after it
SubFrom(s, lit) ==
    LET starts == {i \in 1..Len(s) : StartsAt(lower(s), lit, i) /\ i + Len(lit) <= Len(s)}
    IN  IF starts = {} THEN s ELSE SubSeq(s, 1, MinOf(starts) - 1)

\* re.sub(r" - .+? (?:careers|jobs|hiring)", '', s), IGNORECASE: each match
\* runs from a " - " to the end of the nearest following " careers", " jobs"
\* or " hiring" that leaves a character in between
RECURSIVE SubDashSuffix(_)
SubDashSuffix(s) ==
    LET low      == lower(s)
        words    == {"careers", "jobs", "hiring"}
        stops(i) == {p \in (i + 4)..Len(s) : \E w \in words : StartsAt(low, " " \o w, p)}
        starts   == {i \in 1..Len(s) : StartsAt(low, " - ", i) /\ stops(i) # {}}
    IN  IF starts = {} THEN s
        ELSE LET i == MinOf(starts)
                 p == MinOf(stops(i))
                 w == CHOOSE w \in words : StartsAt(low, " " \o w, p)
             IN  SubSeq(s, 1, i - 1) \o SubDashSuffix(Rest(s, p + Len(w) + 1))

\* lines 212-226
_extract_job_title(t) ==
    LET cut == strip(SubFrom(SubDashSuffix(SubFrom(SubLazyDash(t), " at ")), " | "))
    IN  IF Truthy(cut) THEN cut ELSE "Technology Role"

\* [A-Za-z\s,]
LocChar(c) == IsLetter(c) \/ IsSpace(c) \/ c = ","

\* the end of the longest run of [A-Za-z\s,] characters that starts at i
RunEnd(s, i) ==
    LET stop == {j \in i..Len(s) : ~LocChar(Ch(s, j))}
    IN  IF stop = {} THEN Len(s) ELSE MinOf(stop) - 1

states == {"ca", "ny", "tx", "fl", "il", "wa", "ma"}

\* r"in ([A-Za-z\s,]+(?:CA|NY|TX|FL|IL|WA|MA))", IGNORECASE, tried at i: the
\* greedy group is the longest piece of the run that ends in a state code
LocStateAt(s, i) ==
    LET ends == {e \in (i + 5)..RunEnd(s, i + 3) : SubSeq(lower(s), e - 1, e) \in states}
    IN  IF StartsAt(lower(s), "in ", i) /\ ends # {}
        THEN <<SubSeq(s, i + 3, MaxOf(ends))>> ELSE <<>>

\* r"<lit>([A-Za-z\s,]+)", IGNORECASE, tried at i
LocRunAt(s, lit, i) ==
    IF StartsAt(lower(s), lit, i) /\ RunEnd(s, i + Len(lit)) >= i + Len(lit)
    THEN <<SubSeq(s, i + Len(lit), RunEnd(s, i + Len(lit)))>> ELSE <<>>

\* r"location:? ([A-Za-z\s,]+)" tried at i
LocLabelAt(s, i) ==
    IF StartsAt(lower(s), "location:", i) THEN LocRunAt(s, "location: ", i)
    ELSE LocRunAt(s, "location ", i)

\* lines 230-234: the three patterns, in order
LocationPattern(n, s, i) ==
    CASE n = 1 -> LocStateAt(s, i)
      [] n = 2 -> LocLabelAt(s, i)
      [] n = 3 -> LocRunAt(s, "based in ", i)

\* re.search: the match at the leftmost position that has one
LocationSearch(n, s) ==
    LET hits == {i \in 1..Len(s) : LocationPattern(n, s, i) # <<>>}
    IN  IF hits = {} THEN <<>> ELSE LocationPattern(n, s, MinOf(hits))

RECURSIVE TryLocations(_, _)
TryLocations(s, n) ==
    IF n > 3 THEN "United States"
    ELSE IF LocationSearch(n, s) # <<>> THEN strip(LocationSearch(n, s)[1])
    ELSE TryLocations(s, n + 1)

\* lines 228-241
_extract_location(snippet) == TryLocations(snippet, 1)

\* lines 243-261
_infer_industry(company_name, job_title) ==
    LET company_lower == lower(company_name)
        job_lower     == lower(job_title)
    IN  IF AnyIn({"bank", "finance", "capital", "payments", "credit"}, company_lower)
        THEN "FinTech"
        ELSE IF AnyIn({"health", "medical", "care", "pharma", "bio"}, company_lower)
        THEN "Healthcare"
        ELSE IF AnyIn({"soft", "tech", "cloud", "data", "ai", "io"}, company_lower)
        THEN "Software & Technology"
        ELSE IF AnyIn({"media", "entertainment", "streaming", "content"}, company_lower)
        THEN "Media & Entertainment"
        ELSE IF AnyIn({"data", "scientist", "analyst", "analytics"}, job_lower)
        THEN "Data & Analytics"
        ELSE IF AnyIn({"ai", "machine learning", "ml"}, job_lower)
        THEN "Artificial Intelligence"
        ELSE "Technology"

\* lines 268-274, in the dict's order
known_companies ==
    << <<"google", 150000>>, <<"microsoft", 220000>>, <<"amazon", 1500000>>,
       <<"netflix", 12000>>, <<"salesforce", 70000>>, <<"ibm", 350000>>,
       <<"oracle", 140000>>, <<"intel", 120000>>, <<"hubspot", 7000>>,
       <<"slack", 2000>>, <<"zoom", 7000>>, <<"stripe", 8000>>,
       <<"airbnb", 6000>>, <<"uber", 32000>>, <<"lyft", 4500>> >>

\* lines 263-286 of serpapi_client.py: the set of counts the call can return
Serp_estimate_employee_count(company_name) ==
    LET company_lower == lower(company_name)
        known == {i \in DOMAIN known_companies : Contains(known_companies[i][1], company_lower)}
    IN  IF known # {} THEN {known_companies[MinOf(known)][2]}
        ELSE IF AnyIn({"corp", "corporation", "inc", "global"}, company_lower)
        THEN randint(1000, 50000)
        ELSE IF AnyIn({"llc", "ltd", "limited"}, company_lower)
        THEN randint(50, 500)
        ELSE randint(10, 1000)

suffixes == <<" inc", " corp", " corporation", " llc", " ltd", " limited", " company", " co">>

RECURSIVE StripSuffixes(_, _)
StripSuffixes(s, n) ==
    IF n > Len(suffixes) THEN s ELSE StripSuffixes(replace(s, suffixes[n], ""), n + 1)

\* ''.join(e for e in s if e.isalnum())
RECURSIVE KeepAlnum(_)
KeepAlnum(s) ==
    IF Len(s) = 0 THEN ""
    ELSE (IF IsLetter(Ch(s, 1)) \/ IsDigit(Ch(s, 1)) THEN Ch(s, 1) ELSE "")
         \o KeepAlnum(Rest(s, 2))

\* lines 288-300
_get_domain_from_company_name(company_name) ==
    LET clean == strip(StripSuffixes(lower(company_name), 1))
    IN  KeepAlnum(replace(replace(replace(clean, " ", ""), ",", ""), "&", "and")) \o ".com"

\* lines 304-310, in the dict's order
title_mapping ==
    << <<"data", "Chief Data Officer">>, <<"engineer", "CTO">>,
       <<"analyst", "Head of Analytics">>, <<"scientist", "Head of Data Science">>,
       <<"machine learning", "Head of ML">> >>

first_names == <<"Alex", "Taylor", "Jordan", "Morgan", "Casey">>

last_names == <<"Smith", "Johnson", "Brown", "Davis", "Wilson">>

\* random.choice(seq), over the first MaxDraw items of seq
choice(seq) == {seq[i] : i \in 1..Min(MaxDraw, Len(seq))}

\* lines 302-337: relevant_titles[:1] gives one contact; its title is the
\* first title of the first keyword found in the job title, else "CTO"
_generate_contacts(company_name, job_title, first, last) ==
    LET hit == {i \in DOMAIN title_mapping : Contains(title_mapping[i][1], lower(job_title))}
        t   == IF hit = {} THEN "CTO" ELSE title_mapping[MinOf(hit)][2]
    IN  << Contact(first \o " " \o last, t,
                   lower(first) \o "." \o lower(last) \o "@"
                       \o _get_domain_from_company_name(company_name),
                   0, FALSE) >>

\* a raw result item
Item(t, snippet, link) == [title |-> t, snippet |-> snippet, link |-> link]

\* lines 127-163: <<>> for the empty dict, else the records the random
\* draws of the call can produce
\* an extractor that reports a funding event
extracted_signals_funded(job_title, wfh) == Signals(TRUE, TRUE, 0, job_title, wfh)

\* lines 153-160: the signals dict of a new record
extracted_signals(job_title, wfh) == Signals(TRUE, FALSE, 0, job_title, wfh)

_extract_company_from_result(result) ==
    LET company_name == _extract_company_name(result.title, result.snippet, result.link)
        job_title    == _extract_job_title(result.title)
        location     == _extract_location(result.snippet)
    IN  IF ~Truthy(company_name) THEN {}
        ELSE { Company(company_name,
                       _get_domain_from_company_name(company_name),
                       0,
                       _infer_industry(company_name, job_title),
                       employees,
                       IF Truthy(location) THEN location ELSE "United States",
                       "",
                       _generate_contacts(company_name, job_title, first, last),
                       extracted_signals(job_title,
                               Contains("remote", lower(result.title))
                                   \/ Contains("remote", lower(result.snippet))))
               : employees \in Serp_estimate_employee_count(company_name),
                 first \in choice(first_names),
                 last \in choice(last_names) }

\* lines 116-122: the first record of each name, names compared exactly
UniqueByName(cs) ==
    LET keep == {i \in DOMAIN cs :
                    \A j \in 1..(i - 1) : cs[j].company_name # cs[i].company_name}
        RECURSIVE Pick(_)
        Pick(i) == IF i > Len(cs) THEN <<>>
                   ELSE (IF i \in keep THEN <<cs[i]>> ELSE <<>>) \o Pick(i + 1)
    IN  Pick(1)

\* _parse_google_results (lines 99-125), one loop iteration per action

ParseLoopAt ==
    /\ pc \in {"parse_loop", "parse_line111", "parse_line113"}
    /\ "organic_results" \in DOMAIN data
    /\ idx < Len(data.organic_results)

\* lines 103-105: the payload has no organic_results
ParseNoResults ==
    /\ pc = "parse_loop"
    /\ "organic_results" \notin DOMAIN data
    /\ companies' = <<>>
    /\ pc' = "parse_return"
    /\ UNCHANGED <<idx, company, dedupVars, notDedup>>

\* lines 111-113: a record was extracted and is appended
ParseAppend ==
    /\ ParseLoopAt
    /\ \E c \in _extract_company_from_result(data.organic_results[idx + 1]) :
        /\ company' = c
        /\ companies' = Append(companies, c)
    /\ idx' = idx + 1
    /\ pc' = "parse_line113"
    /\ UNCHANGED <<dedupVars, notDedup>>

\* lines 111-112: the extractor returned {} and the item is passed over
ParseSkip ==
    /\ ParseLoopAt
    /\ _extract_company_from_result(data.organic_results[idx + 1]) = {}
    /\ idx' = idx + 1
    /\ pc' = "parse_line111"
    /\ UNCHANGED <<companies, company, dedupVars, notDedup>>

\* lines 116-125: drop repeated names and return
ParseReturn ==
    /\ pc \in {"parse_loop", "parse_line111", "parse_line113"}
    /\ "organic_results" \in DOMAIN data
    /\ idx = Len(data.organic_results)
    /\ companies' = UniqueByName(companies)
    /\ pc' = "parse_return"
    /\ UNCHANGED <<idx, company, dedupVars, notDedup>>

\* deduplicate_companies called on the extractor's list (deduplicator.py lines 10-12)
DedupCall ==
    /\ pc = "parse_return"
    /\ unique_companies' = <<>>
    /\ idx' = 0
    /\ pc' = "dedup_loop"
    /\ UNCHANGED <<companies, company, key, similar_key, existing, run, first_output, notDedup>>

\* _parse_google_results (lines 99-125) as a whole: the lists the call can
\* return for a payload

RECURSIVE ExtractAll(_)
ExtractAll(results) ==
    IF results = <<>> THEN {<<>>}
    ELSE IF _extract_company_from_result(Head(results)) = {} THEN ExtractAll(Tail(results))
    ELSE {<<c>> \o rest : c \in _extract_company_from_result(Head(results)),
                          rest \in ExtractAll(Tail(results))}

_parse_google_results(d) ==
    IF "organic_results" \notin DOMAIN d THEN {<<>>}
    ELSE {UniqueByName(cs) : cs \in ExtractAll(d.organic_results)}

\* _search_working_method (lines 35-71), one query per action

job_queries ==
    << "data scientist jobs USA", "software engineer jobs United States",
       "data analyst jobs hiring", "machine learning engineer jobs",
       "AI engineer jobs USA" >>

\* line 52: job_queries[:3]
QueryLimit == 3

Event(op, arg) == [op |-> op, arg |-> arg]

\* a list.extend that puts the new records in front
extend_in_front(list, more) == more \o list

\* lines 57-58: companies.extend(company_data)
extend(list, more) == list \o more

SearchLoopAt ==
    /\ pc \in {"search_loop", "search_line64"}
    /\ idx < Min(QueryLimit, Len(job_queries))

\* lines 56-64 with a 200 response: the payload is parsed, the records are
\* added, and the loop pauses
SearchQueryOk(payloads) ==
    /\ SearchLoopAt
    /\ \E d \in payloads :
        \E found \in _parse_google_results(d) :
            /\ status' = "200"
            /\ data' = d
            /\ company_data' = found
            /\ companies' = extend(companies, found)
            /\ calls' = calls \o <<Event("search", job_queries[idx + 1]), Event("sleep", 2)>>
            /\ idx' = idx + 1
            /\ pc' = "search_line64"
            /\ UNCHANGED <<company, api_key, contacts, in_flight, prospects, serpapi_filters,
                           dedupVars, scoreVars, enrichVars>>

\* lines 56-64 with a failed request: _search_google_jobs returns [] for a
\* status other than 200 (lines 91-94) and for a transport error or a payload
\* that cannot be read (lines 95-97); nothing is added and the loop pauses
SearchQueryFailed ==
    \E st \in {"429", "exception", "malformed"} :
        /\ SearchLoopAt
        /\ status' = st
        /\ data' = NoData
        /\ company_data' = <<>>
        /\ calls' = calls \o <<Event("search", job_queries[idx + 1]), Event("sleep", 2)>>
        /\ idx' = idx + 1
        /\ pc' = "search_line64"
        /\ UNCHANGED <<companies, company, api_key, contacts, in_flight, prospects, serpapi_filters,
                       dedupVars, scoreVars, enrichVars>>

\* line 71: return companies
SearchReturn ==
    /\ pc \in {"search_loop", "search_line64"}
    /\ idx = Min(QueryLimit, Len(job_queries))
    /\ pc' = "search_return"
    /\ UNCHANGED <<companies, idx, company, dedupVars, scoreVars, hunterVars,
                   enrichVars, callVars>>

---------------------------------------------------------------------------
(* The Deduplicator alone, on every list of at most MaxCompanies records   *)
(* of DedupPool.                                                           *)

C_a == Contact("Alex Smith", "CTO", "a@x.com", 0, FALSE)
C_b == Contact("Taylor Brown", "CTO", "b@x.com", 900, TRUE)
C_d == Contact("Casey Davis", "Head of Data", "d@x.com", 800, TRUE)
C_e == Contact("Jordan Wilson", "VP Engineering", "", 700, TRUE)
C_f == Contact("Morgan Johnson", "CTO", "", 0, FALSE)
C_g == Contact("Gil Hart", "VP Engineering", "g@x.com", 850, TRUE)
C_h == Contact("Hal Ives", "Head of Data", "h@x.com", 600, TRUE)
C_i == Contact("Ida Jung", "Chief Data Officer", "i@x.com", 750, TRUE)
C_j == Contact("Jo Kent", "CTO", "j@x.com", 500, TRUE)

Sig0 == Signals(TRUE, FALSE, 0, "Data Engineer", FALSE)

Sig1 == Signals(TRUE, FALSE, 0, "Technology Role", TRUE)

DedupPool ==
    { Company("Abcd", "abcd.com", 0, "Technology", 0, "United States", "",
              <<C_a, C_e>>, Sig0),
      Company("abcde", "abcde.com", 500, "Data", 10, "Austin, TX", "Seed",
              <<C_b, C_g, C_h>>, Sig1),
      Company("abcdef", "abcdef.com", 700, "Data", 20, "United States", "Series A",
              <<C_d, C_i, C_j>>, Sig0),
      Company("wxyz", " ABCD.com ", 900, "Data", 0, "United States", "Public",
              <<C_d, C_d, C_f>>, Sig1),
      Company("abcd", "", 0, "Data", 30, "United States", "",
              <<>>, Sig0),
      Company("Abcd", " ", 0, "Data", 0, "United States", "Seed",
              <<>>, Sig0) }

SeqsUpTo(S, n) == UNION {[1..m -> S] : m \in 0..n}

InitDedup ==
    /\ companies \in SeqsUpTo(DedupPool, MaxCompanies)
    /\ pc = "dedup_loop"
    /\ idx = 0
    /\ company = NoCompany
    /\ DedupIdle
    /\ ScoreIdle
    /\ HunterIdle
    /\ EnrichIdle
    /\ CallIdle

NextDedup ==
    \/ DedupFuzzyMerge
    \/ DedupInsert
    \/ DedupExactMerge
    \/ DedupReturn
    \/ DedupAgain

SpecDedup == InitDedup /\ [][NextDedup]_vars

\* the record a merge step has just stored (deduplicator.py lines 23 and 30)
Merged ==
    IF pc = "dedup_line23" THEN DictGet(unique_companies, similar_key[1])
    ELSE DictGet(unique_companies, key)

NameRatio(a, b) == fuzz_ratio(lower(a.company_name), lower(b.company_name))

EmailsOf(cs) == {cs[i].email : i \in DOMAIN cs}

EmptyEmailCount(cs) == Cardinality({i \in DOMAIN cs : cs[i].email = ""})

\* C1: running the Deduplicator on its own output performs no exact-key
\* merge and no fuzzy merge, and returns the same records (same count, same
\* keys, same field values) in the same order.
C1_DedupIdempotent ==
    /\ run = 2 => pc \notin {"dedup_line23", "dedup_line30"}
    /\ (run = 2 /\ pc = "dedup_return") => companies = first_output

\* C1 witness: a second run has returned for a first run that merged records
\* and kept at least two.
C1_Witness ==
    /\ run = 2
    /\ pc = "dedup_return"
    /\ Len(first_output) >= 2
    /\ \E i \in DOMAIN first_output : Len(first_output[i].contacts) >= 4

\* C2 as stated: a fuzzy merge goes into the kept record with the highest
\* name similarity to the incoming record.
C2_MergesIntoHighest ==
    pc = "dedup_line23" =>
        \A i \in DOMAIN unique_companies :
            NameRatio(company, existing) >= NameRatio(company, unique_companies[i].val)

\* C2 amended: a fuzzy merge goes into the first kept record, in insertion
\* order, whose name similarity to the incoming record is >= 85; a later kept
\* record with a higher similarity is passed over.
C2_MergesIntoFirstAtThreshold ==
    pc = "dedup_line23" =>
        LET t == DictIndex(unique_companies, similar_key[1])
        IN  /\ NameRatio(company, unique_companies[t].val) >= 85
            /\ \A j \in 1..(t - 1) : NameRatio(company, unique_companies[j].val) < 85
            /\ existing.company_name = unique_companies[t].val.company_name
            /\ unique_companies[t].val = _merge_companies(existing, company)

\* C2 witness: a fuzzy merge where a later kept record scores higher than the
\* record merged into.
C2_Witness ==
    /\ pc = "dedup_line23"
    /\ \E i \in DOMAIN unique_companies :
        /\ i > DictIndex(unique_companies, similar_key[1])
        /\ NameRatio(company, unique_companies[i].val) > NameRatio(company, existing)
        /\ NameRatio(company, existing) >= 85

\* C3: when B is merged into the kept record A giving M (at most 5 contacts in
\* total), M's contacts start with A's contacts, every contact of B whose
\* non-empty email differs from the emails of all other contacts of A and B
\* is in M, and no contact with an empty email is dropped as a duplicate.
C3_MergeKeepsContacts ==
    (pc \in {"dedup_line23", "dedup_line30"}
        /\ Len(existing.contacts) + Len(company.contacts) <= 5) =>
        LET A == existing.contacts
            B == company.contacts
            M == Merged.contacts
        IN  /\ Len(M) >= Len(A)
            /\ SubSeq(M, 1, Len(A)) = A
            /\ \A j \in DOMAIN B :
                    ( /\ B[j].email # ""
                      /\ B[j].email \notin EmailsOf(A)
                      /\ \A k \in DOMAIN B : k # j => B[k].email # B[j].email )
                    => \E m \in DOMAIN M : M[m] = B[j]
            /\ EmptyEmailCount(M) = EmptyEmailCount(A) + EmptyEmailCount(B)

\* C3 witness: a merge of at most 5 contacts in which both records carry a
\* contact without email, the incoming record brings a new email and a known one.
C3_Witness ==
    /\ pc \in {"dedup_line23", "dedup_line30"}
    /\ Len(existing.contacts) + Len(company.contacts) <= 5
    /\ EmptyEmailCount(existing.contacts) >= 1
    /\ EmptyEmailCount(company.contacts) >= 1
    /\ \E j \in DOMAIN company.contacts :
           company.contacts[j].email # "" /\ company.contacts[j].email \notin EmailsOf(existing.contacts)
    /\ Len(Merged.contacts) = Len(existing.contacts) + Len(company.contacts)

\* the list handed to the Deduplicator is one the contact stage can hand
\* over: every record has at most 5 contacts, each with an email
FromContactStage ==
    \A i \in DOMAIN companies :
        /\ Len(companies[i].contacts) <= 5
        /\ \A j \in DOMAIN companies[i].contacts : companies[i].contacts[j].email # ""

\* C4 as stated, at the Deduplicator: when every record handed over by the
\* contact stage has at most 5 contacts, every record the Deduplicator keeps
\* has at most 5 contacts.
C4_ContactCap ==
    (pc \in {"dedup_line23", "dedup_line26", "dedup_line30"} /\ run = 1 /\ FromContactStage) =>
        \A i \in DOMAIN unique_companies : Len(unique_companies[i].val.contacts) <= 5

\* C4 witness: a merge of two records that both satisfy the cap.
C4_Witness ==
    /\ pc \in {"dedup_line23", "dedup_line30"}
    /\ run = 1
    /\ FromContactStage
    /\ Len(existing.contacts) >= 1
    /\ Len(company.contacts) >= 1

---------------------------------------------------------------------------
(* The Confidence Scorer alone, then the agent's second sort, on every     *)
(* list of at most MaxCompanies records of ScorePool and every ICP of      *)
(* IcpPool.                                                                *)

SigFunded(hiring, amount) == Signals(hiring, TRUE, amount, "Data Engineer", FALSE)

ScorePool ==
    { Company("Xeno", "xeno.com", 0, "Technology", 60, "United States", "",
              <<>>, Signals(FALSE, FALSE, 0, "Technology Role", FALSE)),
      Company("Yolk", "yolk.com", 0, "Tech", 60, "United States", "",
              <<>>, SigFunded(FALSE, 60)),
      Company("Zeta", "zeta.com", 0, "Media", 0, "United States", "",
              <<>>, SigFunded(TRUE, 60)),
      Company("Fin", "fin.com", 0, "FinTech", 45, "United States", "",
              <<>>, DictUpdate(Signals(FALSE, FALSE, 0, "Analyst", FALSE),
                               [funding_round |-> "Series A"])),
      Company("Dana", "dana.com", 0, "Data & Analytics", 25, "United States", "",
              <<>>, SigFunded(TRUE, 20)),
      Company("Tops", "tops.com", 0, "Fintech", 50, "United States", "",
              <<>>, SigFunded(TRUE, 51)) }

IcpPool ==
    { [industry |-> <<"tech">>,
       signals |-> [funding |-> TRUE, hiring_data_roles |-> TRUE],
       employee_count_min |-> 50],
      [industry |-> <<"Data Science", "fin">>,
       signals |-> [funding |-> TRUE, hiring_data_roles |-> FALSE],
       employee_count_min |-> 50],
      NoIcp }

InitScore ==
    /\ companies \in SeqsUpTo(ScorePool, MaxCompanies)
    /\ icp_config \in IcpPool
    /\ pc = "score_loop"
    /\ idx = 0
    /\ company = NoCompany
    /\ industry_score = 0
    /\ funding_score = 0
    /\ hiring_score = 0
    /\ employee_score = 0
    /\ ranked = <<>>
    /\ DedupIdle
    /\ HunterIdle
    /\ EnrichIdle
    /\ CallIdle

NextScore ==
    \/ ScoreCompany
    \/ ScoreReturn
    \/ AgentSort

SpecScore == InitScore /\ [][NextScore]_vars

\* C5: after a company is scored its confidence is within [0,1] (0..100
\* hundredths) and equals 0.4*industry + 0.3*funding + 0.2*hiring +
\* 0.1*employee (thousandths) rounded to two decimals, each sub-score
\* being within [0,1].
C5_ScoreBounded ==
    /\ \A i \in DOMAIN companies :
            companies[i].confidence >= 0 /\ companies[i].confidence <= 100
    /\ pc = "score_line30" =>
        /\ {industry_score, funding_score, hiring_score, employee_score} \subseteq 0..100
        /\ LET sum == 4 * industry_score + 3 * funding_score
                          + 2 * hiring_score + 1 * employee_score
           IN  /\ 10 * companies[idx].confidence - 5 <= sum
               /\ sum <= 10 * companies[idx].confidence + 5
               /\ company.confidence = companies[idx].confidence

\* C5 witness: a company scored with every sub-score at its maximum, so the
\* confidence reaches 1.
C5_Witness ==
    /\ pc = "score_line30"
    /\ industry_score = 100 /\ funding_score = 100
    /\ hiring_score = 100 /\ employee_score = 100
    /\ companies[idx].confidence = 100

\* out is s reordered by decreasing confidence, equal confidences keeping
\* their order in s
StableDescending(s, out) ==
    /\ Len(out) = Len(s)
    /\ \E p \in [1..Len(s) -> 1..Len(s)] :
        /\ \A i, j \in 1..Len(s) : i # j => p[i] # p[j]
        /\ \A i \in 1..Len(s) : out[i] = s[p[i]]
        /\ \A i, j \in 1..Len(s) :
               i < j => \/ out[i].confidence > out[j].confidence
                        \/ out[i].confidence = out[j].confidence /\ p[i] < p[j]

\* C6: the list the Scorer returns, and the list after the agent's second
\* sort, is a permutation of the scored list in non-increasing confidence
\* order in which records of equal confidence keep their input order.
C6_StableRanking ==
    pc \in {"score_return", "agent_line70"} => StableDescending(companies, ranked)

\* C6 witness: confidences [0.5, 0.8, 0.5] of three different records come
\* out as 0.8, first 0.5, second 0.5 after both sorts.
C6_Witness ==
    /\ pc = "agent_line70"
    /\ Len(companies) = 3
    /\ companies[1].confidence = 50
    /\ companies[2].confidence = 80
    /\ companies[3].confidence = 50
    /\ companies[1] # companies[3]
    /\ ranked = <<companies[2], companies[1], companies[3]>>

---------------------------------------------------------------------------
(* find_emails alone, on every directory response of Responses.            *)

E_cto(n) == Entry("Ann", n, Present("CTO"), "ann." \o n \o "@x.com", Present(90))

Fill == <<E_cto("a"), E_cto("b"), E_cto("c"), E_cto("d"), E_cto("e"), E_cto("f"),
          E_cto("g")>>

EntryPool ==
    { Entry("Bo", "Lee", Present("Senior vp engineering"), "bo@x.com", Present(100)),
      Entry("Cy", "Old", Present("Sales Manager"), "cy@x.com", Present(50)),
      Entry("Di", "", Present("Head of Data"), "", Present(70)),
      Entry("Ed", "Fox", Null(""), "ed@x.com", Present(60)),
      Entry("Flo", "Gil", Present("Chief Data Officer"), "flo@x.com", Null(0)),
      Entry("Guy", "Hill", Missing(""), "guy@x.com", Missing(0)),
      Entry("Hal", "Ing", Present("cto"), "not-an-email", Missing(0)) }

Responses ==
    {[emails |-> v \o SubSeq(Fill, 1, k)] :
        v \in SeqsUpTo(EntryPool, MaxVaried), k \in 0..Min(MaxFill, Len(Fill))}
    \cup
    {[emails |-> SubSeq(Fill, 1, k) \o v] :
        v \in SeqsUpTo(EntryPool, MaxVaried), k \in 0..Min(MaxFill, Len(Fill))}

InitFindEmails ==
    /\ pc = "find_emails"
    /\ api_key \in BOOLEAN
    /\ status = "none"
    /\ data = NoData
    /\ contacts = <<>>
    /\ companies = <<>>
    /\ idx = 0
    /\ company = NoCompany
    /\ DedupIdle
    /\ ScoreIdle
    /\ EnrichIdle
    /\ CallIdle

NextFindEmails ==
    \/ FindEmailsNoKey
    \/ FindEmailsOk(Responses)
    \/ FindEmailsFailed

SpecFindEmails == InitFindEmails /\ [][NextFindEmails]_vars

\* the entry honours the directory's contract: position is a string (or
\* left out) and confidence an integer (or left out)
WellFormed(e) == e.position.kind # "null" /\ e.confidence.kind # "null"

\* the entry's position contains one of the four target titles, whatever the case
TitleHit(e) ==
    \E t \in {"cto", "vp engineering", "chief data officer", "head of data"} :
        Contains(t, lower(e.position.val))

\* the positions, in response order, of the entries in `keep`
Ordered(keep) ==
    [k \in 1..Cardinality(keep) |->
        CHOOSE i \in keep : Cardinality({j \in keep : j < i}) = k - 1]

MalformedEmail(v) == v # "" /\ ~\E i \in 2..(Len(v) - 1) : Ch(v, i) = "@"

FailsValidation(e) == ~WellFormed(e) \/ MalformedEmail(e.value)

\* C10 as stated: when one entry of a response fails shape validation, only
\* that entry is dropped: the contacts returned are the other entries that
\* match a target title and have an email (the first 5 of them).
C10_OnlyOffenderDropped ==
    (pc = "find_emails_return" /\ status = "200"
        /\ Cardinality({i \in DOMAIN data.emails : FailsValidation(data.emails[i])}) = 1) =>
        LET es   == data.emails
            keep == {i \in DOMAIN es : /\ ~FailsValidation(es[i])
                                       /\ TitleHit(es[i]) /\ es[i].value # ""}
            f    == Ordered(keep)
        IN  /\ Len(contacts) = Min(5, Cardinality(keep))
            /\ \A k \in DOMAIN contacts : contacts[k].email = es[f[k]].value

\* C10 witness: the response holds valid matching entries and one entry
\* with a null position, and find_emails returns no contact at all.
C10_Witness ==
    /\ pc = "find_emails_return" /\ status = "200"
    /\ Cardinality({i \in DOMAIN data.emails : FailsValidation(data.emails[i])}) = 1
    /\ \E i \in DOMAIN data.emails : data.emails[i].position.kind = "null"
    /\ \E i \in DOMAIN data.emails :
           ~FailsValidation(data.emails[i]) /\ TitleHit(data.emails[i])
    /\ contacts = <<>>

---------------------------------------------------------------------------
(* The Attribute Estimator alone, on every list of at most MaxBatch        *)
(* records of EnrichPool.                                                  *)

EnrichPool ==
    { Company("Acme", "acme.com", 0, "Technology", 40, "United States", "",
              <<C_a>>, Sig1),
      Company("Globex Corp", "globex.com", 0, "", 0, "United States", "",
              <<C_a>>, Signals(TRUE, FALSE, 0, "", FALSE)),
      [Company("Initech", "initech.com", 900, "Software & Technology", 5000,
               "United States", "Series C", <<C_a>>, Sig0)
          EXCEPT !.tech_stack = <<"Rust">>],
      Company("Hooli Labs", "hoolilabs.com", 0, "Media & Entertainment", 0,
              "Austin, TX", "Seed", <<C_a>>,
              Signals(TRUE, FALSE, 0, "Python Developer", TRUE)) }

InitEnrich ==
    /\ companies \in SeqsUpTo(EnrichPool, MaxBatch)
    /\ pc = "enrich_loop"
    /\ idx = 0
    /\ company = NoCompany
    /\ EnrichIdle
    /\ DedupIdle
    /\ ScoreIdle
    /\ HunterIdle
    /\ CallIdle

NextEnrich ==
    \/ EnrichCompany
    \/ EnrichReturn

SpecEnrich == InitEnrich /\ [][NextEnrich]_vars

---------------------------------------------------------------------------
(* The Entity Extractor on one search payload, then the Deduplicator on    *)
(* the list it returns, for every payload of Payloads.                     *)

Item1 == Item("Careers at Acme Corp", "data scientist remote", "https://acme.com/careers")

Item2 == Item("Acme Corporation - Data Engineer Jobs", "based in Austin, TX",
              "https://acme.com/jobs")

ItemInc == Item("Acme Inc Careers", "Location: Boston, MA. Apply", "https://www.acme-inc.io/team")

ItemLabs == Item("Zoom Labs is hiring", "we are based in Berlin", "http://zoomlabs.org")

ItemLab == Item("Zoom Lab - Data Jobs", "Join us in Dallas, TX today", "https://lab.zoom.dev/x")

ItemZoom == Item("Zoom - ML Engineer | Jobs", "remote", "https://www.zoom.com")

ItemBoard == Item("Remote jobs", "search thousands of openings", "https://www.jobsearch.com/q")

ItemCareers == Item("Zoom Careers", "location:  ", "https://zoom.com/careers")

ItemZoomInc == Item("Zoom Inc Careers", "remote", "https://zoom.com/jobs")

Payloads ==
    { << >>,
      [organic_results |-> <<Item1, Item2>>],
      [organic_results |-> <<Item2, Item1>>],
      [organic_results |-> <<Item1, ItemInc>>],
      [organic_results |-> <<ItemLabs, ItemLab>>],
      [organic_results |-> <<ItemZoom, ItemBoard, ItemCareers>>] }

InitExtract ==
    /\ data \in Payloads
    /\ pc = "parse_loop"
    /\ companies = <<>>
    /\ idx = 0
    /\ company = NoCompany
    /\ api_key = FALSE
    /\ status = "none"
    /\ contacts = <<>>
    /\ DedupIdle
    /\ ScoreIdle
    /\ EnrichIdle
    /\ CallIdle

NextExtract ==
    \/ ParseNoResults
    \/ ParseAppend
    \/ ParseSkip
    \/ ParseReturn
    \/ DedupCall
    \/ DedupFuzzyMerge
    \/ DedupInsert
    \/ DedupExactMerge
    \/ DedupReturn

SpecExtract == InitExtract /\ [][NextExtract]_vars

\* the payload holds the two items of the scenario, in either order
Scenario ==
    /\ "organic_results" \in DOMAIN data
    /\ data.organic_results \in {<<Item1, Item2>>, <<Item2, Item1>>}

\* C8 as stated: from the two Acme items the Entity Extractor returns two
\* records, both with an Acme name, and the Deduplicator returns exactly one
\* record, whose source set is not empty.
C8_TwoRecordsMergedIntoOne ==
    Scenario =>
        /\ pc = "parse_return" =>
            /\ Len(companies) = 2
            /\ \A i \in DOMAIN companies : Contains("acme", lower(companies[i].company_name))
        /\ pc = "dedup_return" =>
            /\ Len(companies) = 1
            /\ companies[1].source # {}

\* C8 amended: from the two Acme items the Entity Extractor returns one
\* record: the first item gives the name "Acme" (taken from the link), domain
\* "acme.com", job title "Careers", location "United States" and the remote
\* flag; the second item's title is a generic one of six words and gives no
\* record.  The Deduplicator merges nothing and returns that record as it is,
\* with a non-empty source set and a location that is not "Austin, TX".
C8_OneRecordFromFirstItem ==
    Scenario =>
        /\ pc = "parse_return" =>
            /\ Len(companies) = 1
            /\ companies[1] \in _extract_company_from_result(Item1)
            /\ companies[1].company_name = "Acme"
            /\ companies[1].domain = "acme.com"
            /\ companies[1].location = "United States"
            /\ companies[1].signals.job_title = "Careers"
            /\ companies[1].signals.work_from_home
            /\ Len(companies[1].contacts) = 1
        /\ pc \notin {"dedup_line23", "dedup_line30"}
        /\ pc = "dedup_return" =>
            /\ companies = <<company>>
            /\ company \in _extract_company_from_result(Item1)
            /\ companies[1].source = {"Google Search Jobs"}
            /\ companies[1].location # "Austin, TX"

\* C8 witness: the Deduplicator has returned for the two items of the scenario.
C8_Witness ==
    /\ Scenario
    /\ pc = "dedup_return"
    /\ Len(companies) = 1

---------------------------------------------------------------------------
(* The Company Finder loop alone: every pattern of failed and answered     *)
(* queries, the answers drawn from SearchPayloads.                         *)

SearchPayloads ==
    { << >>,
      [organic_results |-> <<ItemCareers, ItemBoard>>],
      [organic_results |-> <<ItemLabs>>] }

InitSearch ==
    /\ pc = "search_loop"
    /\ companies = <<>>
    /\ idx = 0
    /\ company = NoCompany
    /\ DedupIdle
    /\ ScoreIdle
    /\ HunterIdle
    /\ EnrichIdle
    /\ CallIdle

NextSearch ==
    \/ SearchQueryOk(SearchPayloads)
    \/ SearchQueryFailed
    \/ SearchReturn

SpecSearch == InitSearch /\ [][NextSearch]_vars

\* the queries sent so far, in the order they were sent
QueriesSent == SelectSeq(calls, LAMBDA e : e.op = "search")

\* C11: whatever queries fail, each query step sends the next query of the
\* list, a failed query gives the empty list, the records collected grow by
\* exactly the records of that query, appended after those of the earlier
\* queries in result order, and the loop returns only after all three
\* queries were sent.
C11_FailureTolerance ==
    /\ [][pc' = "search_line64" =>
            /\ idx' = idx + 1
            /\ QueriesSent' = Append(QueriesSent, Event("search", job_queries[idx + 1]))
            /\ status' # "200" => company_data' = <<>>
            /\ companies' = companies \o company_data']_vars
    /\ [](pc = "search_return" =>
            /\ idx = 3
            /\ QueriesSent = [q \in 1..3 |-> Event("search", job_queries[q])])

\* C11 witness: the loop has returned after a first query that gave a record,
\* a failed second query and a third query that gave another record, and the
\* list holds the first query's record before the third's.
C11_Witness ==
    /\ pc = "search_return"
    /\ status = "200"
    /\ Len(companies) = 2
    /\ companies[1].company_name = "Zoom"
    /\ companies[2].company_name = "Zoom Labs"
    /\ company_data = <<companies[2]>>

---------------------------------------------------------------------------
(* The Contact Resolver loop alone, on every list of at most MaxCompanies  *)
(* records of ContactPool, with and without an API key, each lookup        *)
(* answered by a failure or by one of ContactResponses.                    *)

ContactPool ==
    { Company("Zoom", "zoom.com", 0, "Technology", 7000, "Remote", "", <<C_a>>, Sig0),
      Company("Remote jobs", "", 0, "", 0, "", "", <<C_e>>, Sig0),
      Company("Hooli", "hooli.com", 0, "", 0, "", "", <<>>, Sig1),
      Company("Acme", "acme.io", 0, "Technology", 40, "Austin, TX", "Seed", <<C_b, C_d>>, Sig1) }

ContactResponses ==
    { NoData,
      [emails |-> <<E_cto("a")>>],
      [emails |-> <<Entry("Bo", "Li", Present("Intern"), "bo@zoom.com", Present(50)),
                    E_cto("b"), E_cto("c")>>] }

InitContacts ==
    /\ pc = "contacts_loop"
    /\ companies \in SeqsUpTo(ContactPool, MaxCompanies)
    /\ idx = 0
    /\ company = NoCompany
    /\ api_key \in BOOLEAN
    /\ status = "none"
    /\ data = NoData
    /\ contacts = <<>>
    /\ DedupIdle
    /\ ScoreIdle
    /\ EnrichIdle
    /\ CallIdle

NextContacts ==
    \/ ContactsSkip
    \/ ContactsLookup
    \/ FindEmailsNoKey
    \/ FindEmailsOk(ContactResponses)
    \/ FindEmailsFailed
    \/ ContactsStore
    \/ ContactsReturn

SpecContacts == InitContacts /\ [][NextContacts]_vars

\* the positions of the lookups in the log
LookupsAt == {i \in 1..Len(calls) : calls[i].op = "lookup"}

\* the domains looked up so far, in the order of the lookups
LookedUp == [k \in 1..Cardinality(LookupsAt) |->
                calls[CHOOSE i \in LookupsAt : Cardinality({j \in LookupsAt : j < i}) = k - 1].arg]

\* the domains of the first n companies that pass the gate, in list order
RECURSIVE Eligible(_)
Eligible(n) ==
    IF n = 0 THEN <<>>
    ELSE IF ValidDomain(companies[n].domain)
         THEN Append(Eligible(n - 1), companies[n].domain)
         ELSE Eligible(n - 1)

\* C12: at most one directory lookup is in flight at any time, the lookups
\* made so far are those of the eligible companies in list order, and between
\* any two lookups of the log there is a pause, whatever the earlier lookup
\* returned and however many skipped companies lie between the two.
C12_RateDiscipline ==
    /\ in_flight \in {0, 1}
    /\ in_flight = 1 <=> pc \in {"find_emails", "find_emails_return"}
    /\ LookedUp = Eligible(idx + in_flight)
    /\ \A i \in LookupsAt : \A j \in LookupsAt :
           i < j => \E k \in (i + 1)..(j - 1) : calls[k] = [op |-> "sleep", arg |-> 3]

\* C12 witness: the stage has returned after two lookups with a skipped
\* company between them, the first of which gave nothing.
C12_Witness ==
    /\ pc = "contacts_return"
    /\ Len(companies) = 3
    /\ ~ValidDomain(companies[2].domain)
    /\ Cardinality(LookupsAt) = 2
    /\ companies[1].contacts = <<C_a>>
    /\ Len(companies[3].contacts) = 2
    /\ companies[3].contacts[1].hunter_verified

\* a record without its contacts
Uncontacted(c) == [c EXCEPT !.contacts = <<>>]

\* C18: in every step of the stage the list keeps its length and order and
\* every record keeps every field other than contacts; a record's contacts
\* change only in the step after its own lookup, and only to a non-empty
\* list find_emails returned; a company reached by the loop is looked up
\* exactly when its domain is non-empty and ends in ".com"; and what
\* find_emails returns is the filtered result of a 200 response, or nothing.
C18_ContactEffect ==
    /\ [][/\ Len(companies') = Len(companies)
          /\ \A i \in 1..Len(companies) :
                 /\ Uncontacted(companies'[i]) = Uncontacted(companies[i])
                 /\ companies'[i].contacts =
                        IF pc = "find_emails_return" /\ i = idx + 1 /\ contacts # <<>>
                        THEN contacts
                        ELSE companies[i].contacts
          /\ (pc = "contacts_loop" /\ idx < Len(companies)) =>
                 (pc' = "find_emails" <=>
                      LET d == companies[idx + 1].domain
                      IN  Len(d) >= 4 /\ SubSeq(d, Len(d) - 3, Len(d)) = ".com")]_vars
    /\ [](pc = "find_emails_return" =>
             contacts = IF status = "200" /\ ~_parse_hunter_contacts(data, job_titles).raised
                        THEN _parse_hunter_contacts(data, job_titles).contacts
                        ELSE <<>>)

\* C18 witness: the stage has returned; the first company's contacts were
\* replaced by directory contacts, the second failed the gate and kept its
\* two contacts, and the third was looked up, the lookup failed, and it kept
\* its placeholder.
C18_Witness ==
    /\ pc = "contacts_return"
    /\ Len(companies) = 3
    /\ companies[1].domain = "zoom.com"
    /\ companies[1].contacts # <<>>
    /\ \A k \in 1..Len(companies[1].contacts) : companies[1].contacts[k].hunter_verified
    /\ companies[2].domain = "acme.io"
    /\ companies[2].contacts = <<C_b, C_d>>
    /\ companies[3].domain = "zoom.com"
    /\ companies[3].contacts = <<C_a>>
    /\ status = "exception"

---------------------------------------------------------------------------
(* The employee score alone, on every employee count up to MaxCount and    *)
(* every ICP minimum up to MaxMin.  Both values are integers that are      *)
(* present; line 98 treats an absent value exactly as it treats 0.         *)

InitEmployeeScore ==
    /\ pc = "employee_score"
    /\ companies = <<>>
    /\ idx = 0
    /\ \E n \in 0..MaxCount : company = [NoCompany EXCEPT !.employee_count = n]
    /\ \E m \in 0..MaxMin : icp_config = [NoIcp EXCEPT !.employee_count_min = m]
    /\ industry_score = 0
    /\ funding_score = 0
    /\ hiring_score = 0
    /\ employee_score = 0
    /\ ranked = <<>>
    /\ DedupIdle
    /\ HunterIdle
    /\ EnrichIdle
    /\ CallIdle

NextEmployeeScore == EmployeeScoreCall

SpecEmployeeScore == InitEmployeeScore /\ [][NextEmployeeScore]_vars

\* the tiers as the specification states them, in hundredths
Tier(count, minimum) ==
    IF count >= minimum THEN 100
    ELSE IF 10 * count >= 8 * minimum THEN 50
    ELSE IF 10 * count >= 5 * minimum THEN 20
    ELSE 0

\* C13: for every present count and every present minimum, both integers
\* >= 0, the employee score is the tier of the count against the minimum:
\* 1.0 at or above the minimum, 0.5 from 80% of it, 0.2 from 50% of it,
\* otherwise 0.
C13_EmployeeTiers ==
    pc = "employee_score_return" =>
        employee_score = Tier(company.employee_count, icp_config.employee_count_min)

\* C13 witness: the score of a company with 12 employees against an ICP
\* whose minimum is 0 has been computed, and it is 0.
C13_Witness ==
    /\ pc = "employee_score_return"
    /\ icp_config.employee_count_min = 0
    /\ company.employee_count = 12
    /\ employee_score = 0

---------------------------------------------------------------------------
(* Further properties of the Deduplicator, checked under SpecDedup.        *)

\* the first-seen records after the first n input records, under their keys
RECURSIVE Representatives(_)
Representatives(n) ==
    IF n = 0 THEN <<>>
    ELSE LET d == Representatives(n - 1)
             c == companies[n]
             k == _get_company_key(c)
         IN  IF k \in DictKeys(d) \/ KeyTruthy(_find_similar_company(c, d)) THEN d
             ELSE DictSet(d, k, c)

\* the key of the kept record the n-th input record went into
OwnerKey(n) ==
    LET d == Representatives(n - 1)
        c == companies[n]
        k == _get_company_key(c)
        sk == _find_similar_company(c, d)
    IN  IF k \notin DictKeys(d) /\ KeyTruthy(sk) THEN sk[1] ELSE k

\* the input records, among the first n, that went into the record kept under k
Group(k, n) == {i \in 1..n : OwnerKey(i) = k}

\* the value of the first record of a group whose value is truthy, or falsy
FirstTruthy(group, field, falsy) ==
    LET having == {i \in group : companies[i][field] # falsy}
    IN  IF having = {} THEN falsy
        ELSE companies[CHOOSE i \in having : \A j \in having : i <= j][field]

\* C14: while the loop runs, each of revenue, employee_count and
\* funding_stage of a kept record is the value of the first input record,
\* among those that went into it, whose value is truthy, and is falsy when
\* none of them has one.
C14_FirstTruthyScalarWins ==
    pc \in {"dedup_loop", "dedup_line23", "dedup_line26", "dedup_line30"} =>
        \A t \in DOMAIN unique_companies :
            LET g == Group(unique_companies[t].key, idx)
                kept == unique_companies[t].val
            IN  /\ kept.revenue = FirstTruthy(g, "revenue", 0)
                /\ kept.employee_count = FirstTruthy(g, "employee_count", 0)
                /\ kept.funding_stage = FirstTruthy(g, "funding_stage", "")

\* C14 witness: three records went into one kept record; the survivor had no
\* employee count, the second record gave its own, and the third record's
\* different truthy count was not taken.
C14_Witness ==
    /\ pc = "dedup_line23"
    /\ idx = 3
    /\ Len(unique_companies) = 1
    /\ companies[1].employee_count = 0
    /\ companies[2].employee_count # 0
    /\ companies[3].employee_count \notin {0, companies[2].employee_count}
    /\ unique_companies[1].val.employee_count = companies[2].employee_count
    /\ unique_companies[1].val.revenue = companies[3].revenue
    /\ companies[3].revenue # 0

KeyOrder(d) == [i \in DOMAIN d |-> d[i].key]

\* C16: a record whose key is already kept is merged into the record kept
\* under that key, whatever the name similarities are, and no other kept
\* record changes; the kept records stand, at every step and in the returned
\* list, in the order in which their first-seen representatives came in the
\* input, under the keys and names of those representatives.
C16_KeyPrecedenceAndOrder ==
    /\ [][pc' = "dedup_line30" =>
            /\ key' = _get_company_key(companies[idx + 1])
            /\ key' \in DictKeys(unique_companies)
            /\ KeyOrder(unique_companies') = KeyOrder(unique_companies)
            /\ \A i \in DOMAIN unique_companies :
                   unique_companies'[i].val =
                       IF unique_companies[i].key = key'
                       THEN _merge_companies(unique_companies[i].val, companies[idx + 1])
                       ELSE unique_companies[i].val]_vars
    /\ [](pc \in {"dedup_loop", "dedup_line23", "dedup_line26", "dedup_line30"} =>
            /\ KeyOrder(unique_companies) = KeyOrder(Representatives(idx))
            /\ \A i \in DOMAIN unique_companies :
                   unique_companies[i].val.company_name =
                       Representatives(idx)[i].val.company_name)
    /\ [][pc' = "dedup_return" =>
            companies' = [i \in DOMAIN unique_companies |-> unique_companies[i].val]]_vars

\* C16 witness: a record has just been merged into the record kept under its
\* key, whose name is unlike its own, while a record kept later has a name
\* that reaches the threshold.
C16_Witness ==
    /\ pc = "dedup_line30"
    /\ NameRatio(company, existing) < 85
    /\ \E i \in DOMAIN unique_companies :
           /\ i > DictIndex(unique_companies, key)
           /\ NameRatio(company, unique_companies[i].val) >= 85

---------------------------------------------------------------------------
(* Further properties of the Attribute Estimator, checked under SpecEnrich. *)

\* the funding stages the specification allows for an employee count
BucketOptions(count) ==
    IF count > 1000 THEN {"Public", "Series E+"}
    ELSE IF count > 500 THEN {"Series D", "Series E", "Private Equity"}
    ELSE IF count > 100 THEN {"Series B", "Series C"}
    ELSE IF count > 50 THEN {"Series A", "Series B"}
    ELSE {"Seed", "Series A", "Bootstrapped"}

\* C17: a company that had no funding_stage when the Attribute Estimator
\* processed it has a funding_stage among the options of the bucket of its
\* employee_count as it stands after the employee step, whether that count
\* was on the record before or was just estimated.
C17_FundingStageBucket ==
    (pc = "enrich_line29" /\ original_data.funding_stage = "") =>
        company.funding_stage \in BucketOptions(company.employee_count)

\* C17 witness: a company that came with 40 employees and no funding stage
\* has been processed, kept its 40 employees, and was given "Series B".
C17_Witness ==
    /\ pc = "enrich_line29"
    /\ original_data.funding_stage = ""
    /\ original_data.employee_count = 40
    /\ company.employee_count = 40
    /\ company.funding_stage = "Series B"

---------------------------------------------------------------------------
(* ProspectSearchAgent.search_prospects (agent.py lines 24-83): the five   *)
(* stages in sequence, each stage by the actions above.                    *)

\* _generate_serpapi_filters (lines 85-94); icp_config.get("geography",
\* ["USA"])[0] raises for an empty list and for null
FiltersRaise(icp) ==
    \/ icp.geography.kind = "null"
    \/ icp.geography.kind = "present" /\ icp.geography.val = <<>>

\* filters whose default location is the search client's own default
_generate_serpapi_filters_client_default(icp) ==
    [location |-> IF icp.geography.kind = "missing" THEN "United States"
                  ELSE icp.geography.val[1]]

_generate_serpapi_filters(icp) ==
    [location |-> IF icp.geography.kind = "missing" THEN "USA" ELSE icp.geography.val[1]]

\* scoring.py lines 61-62: icp_config.get("signals", {}).get(...) raises when
\* the ICP carries "signals": null
ScorerRaises(icp) == icp.signals = Null(<<>>)

\* lines 39-40: the filters are made and search_companies is called (the
\* search key is set)
AgentSearch ==
    /\ pc = "agent_line39"
    /\ ~FiltersRaise(icp_config)
    /\ serpapi_filters' = _generate_serpapi_filters(icp_config)
    /\ pc' = "search_loop"
    /\ UNCHANGED <<companies, idx, company, company_data, calls, in_flight, prospects,
                   dedupVars, scoreVars, hunterVars, enrichVars>>

\* line 39 raises; lines 79-83: return []
AgentFiltersRaise ==
    /\ pc = "agent_line39"
    /\ FiltersRaise(icp_config)
    /\ prospects' = <<>>
    /\ pc' = "agent_line83"
    /\ UNCHANGED <<companies, idx, company, company_data, calls, in_flight,
                   serpapi_filters, dedupVars, scoreVars, hunterVars, enrichVars>>

\* a stage of lines 51-69 is entered with the list the stage before returned
AgentStage(from, to) ==
    /\ pc = from
    /\ idx' = 0
    /\ pc' = to
    /\ UNCHANGED <<companies, company, dedupVars, scoreVars, hunterVars, enrichVars,
                   callVars>>

\* a pipeline that goes on to the next stage with an empty list
AgentNoCompanies_continues ==
    /\ companies = <<>>
    /\ AgentStage("search_return", "enrich_loop")

\* lines 42-44: no companies, return []
AgentNoCompanies ==
    /\ pc = "search_return"
    /\ companies = <<>>
    /\ prospects' = <<>>
    /\ pc' = "agent_line44"
    /\ UNCHANGED <<companies, idx, company, company_data, calls, in_flight,
                   serpapi_filters, dedupVars, scoreVars, hunterVars, enrichVars>>

\* line 51
AgentEnrich == companies # <<>> /\ AgentStage("search_return", "enrich_loop")

\* line 57
AgentContacts == AgentStage("enrich_return", "contacts_loop")

\* line 63
AgentDedup == AgentStage("contacts_return", "dedup_loop")

\* line 69
AgentScore == AgentStage("dedup_return", "score_loop")

\* line 69 raises inside calculate_confidence; lines 79-83: return []
AgentScorerRaises ==
    /\ ScoreLoopAt
    /\ ScorerRaises(icp_config)
    /\ prospects' = <<>>
    /\ pc' = "agent_line83"
    /\ UNCHANGED <<companies, idx, company, company_data, calls, in_flight,
                   serpapi_filters, dedupVars, scoreVars, hunterVars, enrichVars>>

\* line 77: return companies
AgentReturn ==
    /\ pc = "agent_line70"
    /\ prospects' = ranked
    /\ pc' = "agent_line77"
    /\ UNCHANGED <<companies, idx, company, company_data, calls, in_flight,
                   serpapi_filters, dedupVars, scoreVars, hunterVars, enrichVars>>

\* the searches considered: one query at most is answered with records, two
\* postings of one company under two names, which are similar in one answer
\* and lead to one domain in the other
AgentPayloads ==
    IF companies = <<>>
    THEN { << >>,
           [organic_results |-> <<ItemLab, ItemLabs>>],
           [organic_results |-> <<ItemCareers, ItemZoomInc>>] }
    ELSE { << >> }

AgentResponses == { [emails |-> <<E_cto("a")>>] }

WithGeography(icp, geography) ==
    [industry |-> icp.industry, signals |-> icp.signals,
     employee_count_min |-> icp.employee_count_min, geography |-> geography]

AgentIcp ==
    [industry |-> <<"tech">>, signals |-> [funding |-> TRUE, hiring_data_roles |-> TRUE],
     employee_count_min |-> 50]

AgentIcps ==
    { WithGeography(AgentIcp, Present(<<"Germany">>)),
      WithGeography(AgentIcp, Present(<<>>)),
      WithGeography([AgentIcp EXCEPT !.signals = Null(<<>>)], Missing(<<>>)) }

Init ==
    /\ pc = "agent_line39"
    /\ icp_config \in AgentIcps
    /\ companies = <<>>
    /\ idx = 0
    /\ company = NoCompany
    /\ api_key = TRUE
    /\ status = "none"
    /\ data = NoData
    /\ contacts = <<>>
    /\ industry_score = 0
    /\ funding_score = 0
    /\ hiring_score = 0
    /\ employee_score = 0
    /\ ranked = <<>>
    /\ DedupIdle
    /\ EnrichIdle
    /\ CallIdle

Next ==
    \/ AgentSearch
    \/ AgentFiltersRaise
    \/ SearchQueryFailed
    \/ SearchQueryOk(AgentPayloads)
    \/ SearchReturn
    \/ AgentNoCompanies
    \/ AgentEnrich
    \/ EnrichCompany
    \/ EnrichReturn
    \/ AgentContacts
    \/ ContactsLookup
    \/ FindEmailsOk(AgentResponses)
    \/ FindEmailsFailed
    \/ ContactsStore
    \/ ContactsReturn
    \/ AgentDedup
    \/ DedupFuzzyMerge
    \/ DedupInsert
    \/ DedupExactMerge
    \/ DedupReturn
    \/ AgentScore
    \/ (~ScorerRaises(icp_config) /\ ScoreCompany)
    \/ AgentScorerRaises
    \/ ScoreReturn
    \/ AgentSort
    \/ AgentReturn

Spec == Init /\ [][Next]_vars

Returned == pc \in {"agent_line44", "agent_line77", "agent_line83"}

\* the positions of search_prospects, in the order of the code
Stages ==
    << {"agent_line39"}, {"search_loop", "search_line64"}, {"search_return"},
       {"enrich_loop", "enrich_line29"}, {"enrich_return"},
       {"contacts_loop", "find_emails", "find_emails_return"}, {"contacts_return"},
       {"dedup_loop", "dedup_line23", "dedup_line26", "dedup_line30"}, {"dedup_return"},
       {"score_loop", "score_line30"}, {"score_return"}, {"agent_line70"},
       {"agent_line44", "agent_line77", "agent_line83"} >>

StageNo(p) == CHOOSE i \in DOMAIN Stages : p \in Stages[i]

\* the position inside one iteration of the contact loop
SubStep(p) == IF p = "find_emails" THEN 1 ELSE IF p = "find_emails_return" THEN 2 ELSE 0

LaterStage == StageNo(pc) \in 4..12

DirectoryCalls == SelectSeq(calls, LAMBDA e : e.op = "lookup")

\* the guard of some step of search_prospects holds
HasNextStep ==
    \/ pc \in {"agent_line39", "search_return", "enrich_return", "contacts_return",
               "dedup_return", "score_return", "agent_line70"}
    \/ pc \in Stages[2] /\ idx <= Min(QueryLimit, Len(job_queries))
    \/ pc \in Stages[4] /\ idx <= Len(companies)
    \/ pc = "contacts_loop" /\ idx = Len(companies)
    \/ ContactsLoopAt /\ ValidDomain(companies[idx + 1].domain)
    \/ pc = "find_emails" /\ api_key
    \/ pc = "find_emails_return" /\ idx < Len(companies)
    \/ pc \in Stages[8] /\ idx <= Len(companies)
    \/ pc \in Stages[10] /\ idx <= Len(companies)

\* C19: search_prospects ends only at one of its three return statements:
\* every position before them has a next step, every step moves forward in
\* the code or in the list of the running loop, and nothing runs after a
\* return.  A stage after the search runs only on a non-empty list; a run
\* that returns at line 44 (no companies) gives the empty list, has made no
\* directory call and has enriched, deduplicated and scored nothing.  A stage
\* that raises (the filters on an empty geography, the scorer on null
\* signals) is followed at once by the return of the empty list at line 83,
\* and the stages after it have not run.
C19_PipelineOutcome ==
    /\ [](Returned \/ HasNextStep)
    /\ [][/\ ~Returned
          /\ \/ StageNo(pc') > StageNo(pc)
             \/ StageNo(pc') = StageNo(pc) /\ idx' > idx
             \/ StageNo(pc') = StageNo(pc) /\ idx' = idx /\ SubStep(pc') > SubStep(pc)]_vars
    /\ [][((pc = "agent_line39" /\ FiltersRaise(icp_config))
              \/ (ScoreLoopAt /\ ScorerRaises(icp_config)))
          => (pc' = "agent_line83" /\ prospects' = <<>>)]_vars
    /\ [](LaterStage /\ pc # "agent_line83" => companies # <<>>)
    /\ [](pc = "agent_line44" =>
             /\ prospects = <<>>
             /\ DirectoryCalls = <<>>
             /\ enriched_data = <<>> /\ unique_companies = <<>> /\ ranked = <<>>)
    /\ [](pc = "agent_line83" =>
             /\ prospects = <<>>
             /\ ranked = <<>>
             /\ FiltersRaise(icp_config) => (calls = <<>> /\ companies = <<>>))

\* a record without any funding signal
NoFunding(c) == ~c.signals.new_funding /\ "funding_round" \notin DOMAIN c.signals

\* C20: at every point of the pipeline every record (found, enriched, with
\* contacts, kept by the Deduplicator, ranked or returned) has new_funding
\* false and no funding_round; every funding_score computed is 0; and every
\* ranked or returned prospect has a confidence of at most 0.70.
C20_NoFundingSignal ==
    /\ \A i \in DOMAIN companies : NoFunding(companies[i])
    /\ \A i \in DOMAIN unique_companies : NoFunding(unique_companies[i].val)
    /\ \A i \in DOMAIN ranked : NoFunding(ranked[i]) /\ ranked[i].confidence <= 70
    /\ \A i \in DOMAIN prospects : NoFunding(prospects[i]) /\ prospects[i].confidence <= 70
    /\ pc = "score_line30" => (funding_score = 0 /\ company.confidence <= 70)

\* C20 witness: the pipeline has returned one prospect, merged from two
\* records, for an ICP that asks for funding; its industry, hiring and
\* employee scores are all 1.0 and its confidence is 0.70.
C20_Witness ==
    /\ pc = "agent_line77"
    /\ icp_config.signals.funding
    /\ Len(prospects) = 1
    /\ Len(DirectoryCalls) = 2
    /\ prospects[1].confidence = 70
    /\ industry_score = 100 /\ hiring_score = 100 /\ employee_score = 100

\* C19 witness: the scorer raised on an ICP whose signals are null, after
\* the search, the estimator, two directory calls and the Deduplicator had
\* run, and the caller got the empty list.
C19_Witness ==
    /\ pc = "agent_line83"
    /\ ScorerRaises(icp_config)
    /\ Len(DirectoryCalls) = 2
    /\ Len(companies) = 1
    /\ prospects = <<>>


---------------------------------------------------------------------------
(* Properties of the list the Deduplicator returns, checked under          *)
(* SpecDedup.                                                              *)

---------------------------------------------------------------------------
(* deduplicate_companies as a function of its input list, to compare the   *)
(* results for two orders of the same records.  Checked under SpecDedup.   *)

\* lines 14-30: the dict after the first n records of the list
RECURSIVE DedupFold(_, _)
DedupFold(list, n) ==
    IF n = 0 THEN <<>>
    ELSE LET d  == DedupFold(list, n - 1)
             c  == list[n]
             k  == _get_company_key(c)
             sk == _find_similar_company(c, d)
         IN  IF k \in DictKeys(d)
             THEN DictSet(d, k, _merge_companies(DictGet(d, k), c))
             ELSE IF KeyTruthy(sk)
                  THEN DictSet(d, sk[1], _merge_companies(DictGet(d, sk[1]), c))
                  ELSE DictSet(d, k, c)

deduplicate_companies(list) == DictValues(DedupFold(list, Len(list)))

\* the lists holding the same records in another order
Reorderings(list) ==
    LET n == Len(list)
    IN  {[i \in 1..n |-> list[f[i]]] :
            f \in {g \in [1..n -> 1..n] : \A i, j \in 1..n : i # j => g[i] # g[j]}}

\* two records the Deduplicator may put together: same key or similar names
Related(a, b) ==
    \/ _get_company_key(a) = _get_company_key(b)
    \/ NameRatio(a, b) >= similarity_threshold

\* the positions of the list linked to a position of S by a chain of
\* related records
RECURSIVE Linked(_, _)
Linked(S, list) ==
    LET T == S \cup {j \in DOMAIN list : \E i \in S : Related(list[i], list[j])}
    IN  IF T = S THEN S ELSE Linked(T, list)

Components(list) == {Linked({i}, list) : i \in DOMAIN list}

DistinctKeys(list) == {_get_company_key(list[i]) : i \in DOMAIN list}

\* the first application has consumed its whole input
LoopDone ==
    /\ run = 1
    /\ pc \in {"dedup_loop", "dedup_line23", "dedup_line26", "dedup_line30"}
    /\ idx = Len(companies)

\* C22 as stated: for every list and every permutation of it,
\* deduplicate_companies returns lists of the same length.
C22_LengthOrderIndependent ==
    LoopDone =>
        \A P \in Reorderings(companies) :
            Len(deduplicate_companies(P)) = Len(unique_companies)

\* C22 amended: for every list, in whatever order its records are given
\* (every order of the same records is an input of its own), the number of
\* records deduplicate_companies returns is at least the number of groups of
\* records linked by chains of same key or similar names, and at most the
\* number of distinct keys; both bounds are the same for every order, and
\* between them the number may differ from one order to another.
C22_LengthWithinOrderFreeBounds ==
    LoopDone =>
        /\ Len(unique_companies) = Len(deduplicate_companies(companies))
        /\ Cardinality(Components(companies)) <= Len(unique_companies)
        /\ Len(unique_companies) <= Cardinality(DistinctKeys(companies))

\* C22 witness: three records whose names are similar in a chain but not at
\* its ends were given ends first and two were kept, while the order
\* starting with the middle one keeps a single record.
C22_Witness ==
    /\ LoopDone
    /\ Len(companies) = 3
    /\ NameRatio(companies[1], companies[3]) >= 85
    /\ NameRatio(companies[2], companies[3]) >= 85
    /\ NameRatio(companies[1], companies[2]) < 85
    /\ \A i \in 1..3 : _get_company_key(companies[i]) # ""
    /\ Len(unique_companies) = 2
    /\ Len(deduplicate_companies(<<companies[3], companies[1], companies[2]>>)) = 1

---------------------------------------------------------------------------
(* Contact emails across successive merges, checked under SpecDedup.       *)

\* no two contacts of the list share the same non-empty email
DistinctEmails(list) ==
    \A i, j \in DOMAIN list :
        (i # j /\ Truthy(list[i].email)) => list[i].email # list[j].email

InputClean == \A i \in DOMAIN companies : DistinctEmails(companies[i].contacts)

\* C23: when no input record has two contacts with the same non-empty email,
\* no record kept by deduplicate_companies has, after any number of merges
\* into it, and the records returned are the kept ones.
C23_EmailsStayDistinct ==
    /\ (pc \in {"dedup_loop", "dedup_line23", "dedup_line26", "dedup_line30"}
            /\ InputClean)
           => \A u \in DOMAIN unique_companies :
                  DistinctEmails(unique_companies[u].val.contacts)
    /\ pc = "dedup_return" => companies = DictValues(unique_companies)

\* C23 witness: three clean input records went into one survivor by two
\* successive merges; one merge added contacts, and a contact whose email the
\* survivor already had was left out.
C23_Witness ==
    /\ LoopDone
    /\ InputClean
    /\ Len(companies) = 3
    /\ Len(unique_companies) = 1
    /\ \E i \in 2..3 : \E c \in DOMAIN companies[i].contacts :
           /\ Truthy(companies[i].contacts[c].email)
           /\ companies[i].contacts[c].email \in existing_emails(companies[1])
    /\ Len(unique_companies[1].val.contacts) > Len(companies[1].contacts)
    /\ Len(unique_companies[1].val.contacts) <
           Len(companies[1].contacts) + Len(companies[2].contacts)
               + Len(companies[3].contacts)

---------------------------------------------------------------------------
(* The geography of the ICP at line 39 of search_prospects, checked under  *)
(* Spec.                                                                   *)

EmptyGeography == icp_config.geography = Present(<<>>)

NoGeography == icp_config.geography.kind = "missing"

\* C24: with a geography list that is present but empty, search_prospects
\* goes from line 39 straight to the return of the empty list at line 83 and
\* no search request and no directory lookup is ever made; with no geography
\* key, the filters carry the location "USA" and every later position of the
\* run, its returns included, comes after all three queries were sent.
C24_EmptyGeographyStopsRun ==
    /\ EmptyGeography =>
           /\ pc \in {"agent_line39", "agent_line83"}
           /\ calls = <<>>
           /\ in_flight = 0
           /\ companies = <<>>
           /\ prospects = <<>>
           /\ serpapi_filters = NoFilters
    /\ (NoGeography /\ pc # "agent_line39") =>
           /\ serpapi_filters.location = "USA"
           /\ StageNo(pc) >= 3 => Len(QueriesSent) = QueryLimit

\* C24 witness: the run for the ICP with an empty geography list has
\* returned the empty list from line 83 without a single call.
C24_Witness ==
    /\ pc = "agent_line83"
    /\ EmptyGeography
    /\ prospects = <<>>
    /\ calls = <<>>

====
